---- MODULE Spec2Model ----
(***************************************************************************)
(* Model of the OLE2 compound-document reader of msg-parser-rs             *)
(* (src/src/ole) and of the calls Outlook::from_slice / from_path make     *)
(* into it.                                                                *)
(*                                                                         *)
(* Encoding of the data.                                                   *)
(*  - A byte is an integer 0..255; a header field that the code compares   *)
(*    or decodes byte by byte is kept as its byte sequence and decoded     *)
(*    with FromSlice.                                                      *)
(*  - A 32-bit word (a SECID, a directory link) is kept as the signed      *)
(*    reading of its bit pattern, so 0xFFFFFFFF is -1 and 0xFFFFFFFE is    *)
(*    -2; the unsigned comparisons and the `as usize` indexings of the     *)
(*    code are the operators U32Lt and InRange.                            *)
(*  - A sector is a sparse word array: the words listed in m, every other  *)
(*    word equal to d.                                                     *)
(*  - The bytes of a stream are named by their place in the body: a chunk  *)
(*    is the range [start, end) of one sector.                             *)
(***************************************************************************)
EXTENDS Integers, Sequences, FiniteSets, TLC

VARIABLES
  file,      \* the input: [len, hdr, sec]
  pc,        \* position of Reader::new / of the client
  result,    \* "running", "ok", or the error / abort Reader::new ends with
  header,    \* the 512-byte header buffer of parse_header
  sec_size, short_sec_size, minimum_standard_stream_size,
  msat, sat, ssat, dsat,
  body,      \* [len, sec]: bytes after the header held in memory
  entries,   \* directory entries
  root_entry,
  loc,       \* local variables of the function being executed
  walk,      \* state of the running chain walk
  stack,     \* call stack of build_entry_tree
  slice,     \* the EntrySlice the client holds
  last,      \* outcome of the client's last call
  storages,  \* the Storages of Outlook::from_slice and the locals of
             \* process_streams
  outlook,   \* what Outlook::from_slice has returned
  call       \* a call of one of the parser's functions: what it was given
             \* and what it returned

vars == <<file, pc, result, header, sec_size, short_sec_size,
          minimum_standard_stream_size, msat, sat, ssat, dsat, body,
          entries, root_entry, loc, walk, stack, slice, last,
          storages, outlook, call>>

parserVars == <<storages, outlook, call>>

readerVars == <<sec_size, short_sec_size, minimum_standard_stream_size,
                msat, sat, ssat, dsat, body, entries, root_entry>>

-----------------------------------------------------------------------------
(* Program constants (src/src/ole/constants.rs)                             *)

HEADER_SIZE == 512
IDENTIFIER == <<208, 207, 17, 224, 161, 177, 26, 225>>
LITTLE_ENDIAN_IDENTIFIER == <<254, 255>>
BIG_ENDIAN_IDENTIFIER == <<255, 254>>
END_OF_CHAIN_SECID_U32 == -2
FREE_SECID_U32 == -1
DIRECTORY_ENTRY_SIZE == 128
HeaderMsatLen == 109
MinStreamCutoff == 4096
MaxSizeExponent == 16

\* Option<T>: None is the empty sequence, Some(v) the sequence of v alone
NONE == <<>>
Some(v) == <<v>>
Get(o) == o[1]

-----------------------------------------------------------------------------
(* Byte utilities (src/src/ole/util.rs)                                     *)

RECURSIVE Pow(_, _)
Pow(b, e) == IF e = 0 THEN 1 ELSE b * Pow(b, e - 1)

RECURSIVE FromSliceAt(_, _)
FromSliceAt(buf, i) ==
  IF i > Len(buf) THEN 0
  ELSE buf[i] * Pow(256, i - 1) + FromSliceAt(buf, i + 1)

\* usize::from_slice / u32::from_slice: sum of buf[i] * 256^i
FromSlice(buf) == FromSliceAt(buf, 1)

Min(a, b) == IF a < b THEN a ELSE b

\* unsigned comparison of two 32-bit words kept as signed patterns
U32Lt(a, b) ==
  IF a >= 0 /\ b >= 0 THEN a < b
  ELSE IF a < 0 /\ b < 0 THEN a < b
  ELSE b < 0

\* v as usize is a valid index of a Vec of n elements
InRange(v, n) == v >= 0 /\ v < n

-----------------------------------------------------------------------------
(* Errors (src/src/ole/error.rs, src/src/parser/error.rs)                   *)

IOError(msg) == [kind |-> "IOError", msg |-> msg]
InvalidOLEFile == [kind |-> "InvalidOLEFile", msg |-> ""]
NotImplementedYet == [kind |-> "NotImplementedYet", msg |-> ""]
BadSizeValue(msg) == [kind |-> "BadSizeValue", msg |-> msg]
EmptyMasterSectorAllocationTable ==
  [kind |-> "EmptyMasterSectorAllocationTable", msg |-> ""]
NodeTypeUnknown == [kind |-> "NodeTypeUnknown", msg |-> ""]
EmptyEntry == [kind |-> "EmptyEntry", msg |-> ""]
\* the thread aborts: a panic of the Rust runtime
Panic(msg) == [kind |-> "Panic", msg |-> msg]

\* read_exact on a source that ends early (std::io::ErrorKind::UnexpectedEof)
UnexpectedEof == "failed to fill whole buffer"

\* impl Display for ole::Error
OleDisplay(e) ==
  CASE e.kind = "BadFileSize" -> "Filesize is null or too big."
    [] e.kind = "IOError" -> e.msg
    [] e.kind = "NotImplementedYet" -> "Method not implemented yet"
    [] e.kind = "InvalidOLEFile" -> "Invalid OLE File"
    [] e.kind = "BadSizeValue" -> e.msg
    [] e.kind = "EmptyMasterSectorAllocationTable" -> "MSAT is empty"
    [] e.kind = "NotSectorUsedBySAT" ->
         "Sector is not a sector used by the SAT."
    [] e.kind = "NodeTypeUnknown" -> "Unknown node type"
    [] e.kind = "BadRootStorageSize" -> "Bad RootStorage size"
    [] e.kind = "EmptyEntry" -> "Empty entry"

\* parser::Error::OleError, "Error parsing file with ole: {source}": the
\* message as the sequence of its two parts
OutlookErrorDisplay(e) == <<"Error parsing file with ole: ", OleDisplay(e)>>

\* Reader::new has not returned yet / has returned Ok(t)
Running == [kind |-> "Running", msg |-> ""]
Ok == [kind |-> "Ok", msg |-> ""]

IsErr(r) == r.kind \notin {"Running", "Ok", "Panic"}
IsPanic(r) == r.kind = "Panic"

-----------------------------------------------------------------------------
(* Sectors                                                                  *)

NoWords == [i \in {} |-> 0]
Sec(d, m) == [d |-> d, m |-> m]
Word(s, i) == IF i \in DOMAIN s.m THEN s.m[i] ELSE s.d

\* byte j (0..3) of a word kept as a signed pattern
ByteOf(w, j) == (w \div Pow(256, j)) % 256

-----------------------------------------------------------------------------
(* The inputs.  A file is [len, hdr, sec]: its length in bytes, the fields  *)
(* of its first 512 bytes, and the sectors that follow the header.  Bytes   *)
(* past len do not exist: a sector is in the file only if it ends at or     *)
(* before len.                                                              *)

Fill(v, n) == [i \in 1..n |-> v]

\* prefix followed by free SECIDs up to n words
Pad(prefix, n) == prefix \o Fill(FREE_SECID_U32, n - Len(prefix))

Hdr(magic, endian, k, k2, min, dsatStart, ssatStart, msatNext, nMsat, m) ==
  [magic |-> magic,        \* header[0..8]
   endian |-> endian,      \* header[28..30]
   k |-> k,                \* header[30..32]
   k2 |-> k2,              \* header[32..34]
   dsat |-> dsatStart,     \* header[48..52]
   min |-> min,            \* header[56..60]
   ssat |-> ssatStart,     \* header[60..64]
   msat_next |-> msatNext, \* header[68..72]
   n_msat |-> nMsat,       \* header[72..76]
   msat |-> m]             \* header[76..512], 109 words

\* a directory entry as the words of its 128 bytes: type and colour are
\* bytes 66 and 67 (word 16), the links words 17..19, the start SECID word
\* 29 and the size word 30
Ent(type, colour, left, right, root, start, size) ==
  Sec(0, (16 :> (type * 65536 + colour * 16777216)) @@ (17 :> left)
         @@ (18 :> right) @@ (19 :> root) @@ (29 :> start) @@ (30 :> size))

\* the file's bytes after the header are kept in blocks of 128 bytes (32
\* words); word a of the body is word a mod 32 of block a div 32
BlockWords == DIRECTORY_ENTRY_SIZE \div 4
BodyWord(blk, a) == Word(blk[(a \div BlockWords) + 1], a % BlockWords)

\* Layout of the well-formed file the inputs are variations of (sectors of
\* 128 bytes, short sectors of 64 bytes):
\*   sector 0, 1   the SAT (64 SECIDs)
\*   sector 2..4   the directory: entry 0 (root), entry 1, entry 2
\*   sector 5      the SSAT
\*   sector 6, 7   the mini-stream (short sectors 0..3)
\*   sector 8..39  a standard stream of 4096 bytes
NumBlocks == 40

Params(dirEnd, rootNext, stdLen, stdEnd, ss0, ss1, root, e1, e2) ==
  [dirEnd |-> dirEnd, rootNext |-> rootNext, stdLen |-> stdLen,
   stdEnd |-> stdEnd, ss0 |-> ss0, ss1 |-> ss1,
   root |-> root, e1 |-> e1, e2 |-> e2]

SatWord(p, i) ==
  CASE i \in {0, 1} -> -3
    [] i = 2 -> 3
    [] i = 3 -> 4
    [] i = 4 -> p.dirEnd
    [] i = 5 -> END_OF_CHAIN_SECID_U32
    [] i = 6 -> p.rootNext
    [] i = 7 -> END_OF_CHAIN_SECID_U32
    [] i >= 8 /\ i < 8 + p.stdLen - 1 -> i + 1
    [] i = 8 + p.stdLen - 1 -> p.stdEnd
    [] OTHER -> FREE_SECID_U32

BodyOf(p) ==
  [b \in 1..NumBlocks |->
     CASE b = 1 -> Sec(FREE_SECID_U32, [i \in 0..31 |-> SatWord(p, i)])
       [] b = 2 -> Sec(FREE_SECID_U32, [i \in 0..31 |-> SatWord(p, 32 + i)])
       [] b = 3 -> p.root
       [] b = 4 -> p.e1
       [] b = 5 -> p.e2
       [] b = 6 -> Sec(FREE_SECID_U32,
                       (0 :> p.ss0) @@ (1 :> p.ss1) @@ (2 :> 3)
                       @@ (3 :> END_OF_CHAIN_SECID_U32))
       [] OTHER -> Sec(0, NoWords)]

FullLen == HEADER_SIZE + NumBlocks * DIRECTORY_ENTRY_SIZE

GoodHdr ==
  Hdr(IDENTIFIER, LITTLE_ENDIAN_IDENTIFIER, <<7, 0>>, <<6, 0>>,
      <<0, 16, 0, 0>>, 2, 5, END_OF_CHAIN_SECID_U32, 0,
      Pad(<<0, 1>>, HeaderMsatLen))

RootEnt == Ent(5, 1, FREE_SECID_U32, FREE_SECID_U32, 1, 6, 256)
ShortEnt == Ent(2, 1, FREE_SECID_U32, 2, FREE_SECID_U32, 0, 100)
StdEnt == Ent(2, 1, FREE_SECID_U32, FREE_SECID_U32, FREE_SECID_U32, 8, 4096)

GoodParams ==
  Params(END_OF_CHAIN_SECID_U32, 7, 32, END_OF_CHAIN_SECID_U32,
         1, END_OF_CHAIN_SECID_U32, RootEnt, ShortEnt, StdEnt)

File(len, hdr, blk) == [len |-> len, hdr |-> hdr, blk |-> blk]

\* headers that differ from the good one in the validated fields
Magics == {IDENTIFIER, <<209, 207, 17, 224, 161, 177, 26, 225>>,
           <<208, 207, 17, 224, 161, 177, 26, 0>>}
Endians == {LITTLE_ENDIAN_IDENTIFIER, BIG_ENDIAN_IDENTIFIER,
            <<254, 254>>, <<0, 0>>}
SecExps == {<<7, 0>>, <<3, 0>>, <<15, 0>>, <<16, 0>>, <<0, 1>>}
ShortExps == {<<6, 0>>, <<8, 0>>, <<255, 255>>}
MinSizes == {<<0, 16, 0, 0>>, <<255, 15, 0, 0>>, <<0, 0, 0, 0>>,
             <<136, 19, 0, 0>>}
FileLens == {0, 100, HEADER_SIZE - 1, HEADER_SIZE, FullLen}

HeaderFiles ==
  { File(len,
         Hdr(mg, en, k, k2, mn, 2, 5, END_OF_CHAIN_SECID_U32, 0,
             Pad(<<0, 1>>, HeaderMsatLen)),
         BodyOf(GoodParams)) :
      len \in FileLens, mg \in Magics, en \in Endians, k \in SecExps,
      k2 \in ShortExps, mn \in MinSizes }

\* directories that differ from the good one in one entry
ShortEnts ==
  { Ent(t, 1, FREE_SECID_U32, 2, FREE_SECID_U32, st, sz) :
      t \in {1, 2}, st \in {0, 2}, sz \in {0, 64, 100, 200, 4096} }
StdEnts ==
  { Ent(2, 1, FREE_SECID_U32, FREE_SECID_U32, FREE_SECID_U32, 8, sz) :
      sz \in {4096, 4097, 100} }
RootEnts ==
  { Ent(t, c, l, FREE_SECID_U32, r, 6, 256) :
      t \in {5, 1, 0, 9}, c \in {1, 2}, l \in {FREE_SECID_U32, 1},
      r \in {1, FREE_SECID_U32, 0, 7} }
LinkEnts ==
  { Ent(t, 1, l, r, rt, 0, 100) :
      t \in {1, 2}, l \in {FREE_SECID_U32, 2, 1}, r \in {FREE_SECID_U32, 2},
      rt \in {FREE_SECID_U32, 2} }

DirParams ==
  { [GoodParams EXCEPT !.e1 = e1, !.e2 = e2] :
      e1 \in ShortEnts, e2 \in StdEnts }
  \cup { [GoodParams EXCEPT !.root = r] : r \in RootEnts }
  \cup { [GoodParams EXCEPT !.e1 = e1] : e1 \in LinkEnts }

\* allocation tables that differ from the good ones in the chains
SatParams ==
  { [GoodParams EXCEPT !.dirEnd = de, !.rootNext = rn, !.stdLen = sl,
                       !.stdEnd = se] :
      de \in {END_OF_CHAIN_SECID_U32, 2, 70, FREE_SECID_U32},
      rn \in {7, END_OF_CHAIN_SECID_U32, 6},
      sl \in {32, 1, 33},
      se \in {END_OF_CHAIN_SECID_U32, 8, 100} }
SsatParams ==
  { [GoodParams EXCEPT !.ss0 = s0, !.ss1 = s1,
                       !.e1 = Ent(2, 1, FREE_SECID_U32, 2, FREE_SECID_U32,
                                  0, sz)] :
      s0 \in {1, END_OF_CHAIN_SECID_U32, FREE_SECID_U32, 0, 40},
      s1 \in {END_OF_CHAIN_SECID_U32, FREE_SECID_U32, 2},
      sz \in {100, 200} }

BodyLens == {FullLen, FullLen - 1, FullLen - DIRECTORY_ENTRY_SIZE,
             HEADER_SIZE + 3 * DIRECTORY_ENTRY_SIZE,
             HEADER_SIZE + DIRECTORY_ENTRY_SIZE}

BodyFiles ==
  { File(FullLen, GoodHdr, BodyOf(p)) :
      p \in DirParams \cup SatParams \cup SsatParams }
  \cup { File(len, GoodHdr, BodyOf(GoodParams)) : len \in BodyLens }
  \cup { File(FullLen, [GoodHdr EXCEPT !.msat = Pad(<<>>, HeaderMsatLen)],
               BodyOf(GoodParams)) }

\* files whose header holds 109 SECIDs, so that the MSAT continues in the
\* chain of header[68..72]; sectors 8 and 9 are written as continuation
\* sectors: c SECIDs, free SECIDs, and the SECID of the next one
ContSector(c, next) ==
  Sec(FREE_SECID_U32, [i \in 0..(c - 1) |-> 1] @@ (31 :> next))

MsatBody(c, nextA, nextB) ==
  [BodyOf(GoodParams) EXCEPT ![9] = ContSector(c, nextA),
                             ![10] = ContSector(c, nextB)]

MsatChoices ==
  { x \in [k : {<<7, 0>>, <<1, 0>>},
           first : {END_OF_CHAIN_SECID_U32, 8, 9, 50},
           n : {0, 1, 3},
           c : {0, 1, 31},
           nextA : {END_OF_CHAIN_SECID_U32, 8, 9, 50},
           nextB : {END_OF_CHAIN_SECID_U32, 8}] :
      \* the continuation sectors matter only if the chain is followed
      /\ x.first # END_OF_CHAIN_SECID_U32
            \/ (x.c = 0 /\ x.nextA = END_OF_CHAIN_SECID_U32
                        /\ x.nextB = END_OF_CHAIN_SECID_U32)
      /\ x.k = <<7, 0>>
            \/ (x.c = 1 /\ x.n = 1 /\ x.nextB = END_OF_CHAIN_SECID_U32) }

MsatFiles ==
  { File(FullLen,
         Hdr(IDENTIFIER, LITTLE_ENDIAN_IDENTIFIER, x.k, <<6, 0>>,
             <<0, 16, 0, 0>>, 2, 5, x.first, x.n,
             <<0, 1>> \o Fill(1, HeaderMsatLen - 2)),
         MsatBody(x.c, x.nextA, x.nextB)) : x \in MsatChoices }

\* Files that hold a message.  Sectors of 128 bytes, short sectors of 64
\* bytes:
\*   sector 0, 1         the SAT
\*   sector 2, 3, 4, 8, 9  the directory: entries 0 (root) to 4
\*   sector 5            the SSAT
\*   sector 6, 7         the mini-stream (short sectors 0..3)

\* the word of four bytes, as the signed reading of its 32 bits
WordOfBytes(b0, b1, b2, b3) ==
  b0 + 256 * b1 + 65536 * b2
    + 16777216 * (IF b3 >= 128 THEN b3 - 256 ELSE b3)

ByteAt(bytes, i) == IF i <= Len(bytes) THEN bytes[i] ELSE 0

\* the bytes as words, the last word completed by zeros
WordsOf(bytes) ==
  [w \in 0..(((Len(bytes) + 3) \div 4) - 1) |->
     WordOfBytes(ByteAt(bytes, 4 * w + 1), ByteAt(bytes, 4 * w + 2),
                 ByteAt(bytes, 4 * w + 3), ByteAt(bytes, 4 * w + 4))]

\* the name as UTF-16LE code units, two to a word
NameWords(name) ==
  [w \in 0..(((Len(name) + 1) \div 2) - 1) |->
     ByteAt(name, 2 * w + 1) + 65536 * ByteAt(name, 2 * w + 2)]

\* a directory entry with a name
NamedEnt(name, type, left, right, root, start, size) ==
  Sec(0, NameWords(name) @@ Ent(type, 1, left, right, root, start, size).m)

MsgSatWord(i) ==
  CASE i \in {0, 1} -> -3
    [] i = 2 -> 3
    [] i = 3 -> 4
    [] i = 4 -> 8
    [] i = 8 -> 9
    [] i = 6 -> 7
    [] i \in {5, 7, 9} -> END_OF_CHAIN_SECID_U32
    [] OTHER -> FREE_SECID_U32

\* the body of a message file: its five entries, the first words of the
\* SSAT and the bytes of short sectors 0 and 1
MsgBody(ents, ssatWords, data0, data1) ==
  [b \in 1..NumBlocks |->
     CASE b = 1 -> Sec(FREE_SECID_U32, [i \in 0..31 |-> MsgSatWord(i)])
       [] b = 2 -> Sec(FREE_SECID_U32, NoWords)
       [] b \in {3, 4, 5} -> ents[b - 2]
       [] b \in {9, 10} -> ents[b - 5]
       [] b = 6 -> Sec(FREE_SECID_U32,
                       [i \in 0..(Len(ssatWords) - 1) |-> ssatWords[i + 1]])
       [] b = 7 -> Sec(0, WordsOf(data0)
                          @@ [w \in 16..(15 + ((Len(data1) + 3) \div 4)) |->
                                WordsOf(data1)[w - 16]])
       [] OTHER -> Sec(0, NoWords)]

MsgFile(ents, ssatWords, data0, data1) ==
  File(FullLen, GoodHdr, MsgBody(ents, ssatWords, data0, data1))

MsgRoot == NamedEnt(<<>>, 5, FREE_SECID_U32, FREE_SECID_U32, 1, 6, 256)
NoEnt == Sec(0, NoWords)
EndEnd == <<END_OF_CHAIN_SECID_U32, END_OF_CHAIN_SECID_U32>>

\* "A" and ".doc" in UTF-16LE
TextA == <<65, 0>>
TextDoc == <<46, 0, 100, 0, 111, 0, 99, 0>>

\* names of storages
\*   "__recip_version1.0_#0000000A"
\*   "__recip_version1.0_#00000001"
\*   "__recip_version1.0_#FFFFFFFF"
\*   "__recip_version1.0_#0000000a"
\*   "__recip_version1.0_#0000000G"
\*   "__recip_version1.0_#000000010"
\*   "__recip_version1.0_#1"
\*   "__recip_version1.0_"
\*   "__recip_version1.0_X#00000002"
\*   "__recip_version1.0_#00000003#4"
\*   "__attach_version1.0_#00000001"
\*   "__attach_version1.0_"
\*   "__attach_version1.0#00000001"
\*   "__substg1.0_3001001F"
\*   ""
\*   "#00000001"
\*   "__recip_version1.0_#é000000"
StorageNames ==
  {<<95, 95, 114, 101, 99, 105, 112, 95, 118, 101, 114, 115, 105, 111,
   110, 49, 46, 48, 95, 35, 48, 48, 48, 48, 48, 48, 48, 65>>,
   <<95, 95, 114, 101, 99, 105, 112, 95, 118, 101, 114, 115, 105, 111,
   110, 49, 46, 48, 95, 35, 48, 48, 48, 48, 48, 48, 48, 49>>,
   <<95, 95, 114, 101, 99, 105, 112, 95, 118, 101, 114, 115, 105, 111,
   110, 49, 46, 48, 95, 35, 70, 70, 70, 70, 70, 70, 70, 70>>,
   <<95, 95, 114, 101, 99, 105, 112, 95, 118, 101, 114, 115, 105, 111,
   110, 49, 46, 48, 95, 35, 48, 48, 48, 48, 48, 48, 48, 97>>,
   <<95, 95, 114, 101, 99, 105, 112, 95, 118, 101, 114, 115, 105, 111,
   110, 49, 46, 48, 95, 35, 48, 48, 48, 48, 48, 48, 48, 71>>,
   <<95, 95, 114, 101, 99, 105, 112, 95, 118, 101, 114, 115, 105, 111,
   110, 49, 46, 48, 95, 35, 48, 48, 48, 48, 48, 48, 48, 49, 48>>,
   <<95, 95, 114, 101, 99, 105, 112, 95, 118, 101, 114, 115, 105, 111,
   110, 49, 46, 48, 95, 35, 49>>,
   <<95, 95, 114, 101, 99, 105, 112, 95, 118, 101, 114, 115, 105, 111,
   110, 49, 46, 48, 95>>,
   <<95, 95, 114, 101, 99, 105, 112, 95, 118, 101, 114, 115, 105, 111,
   110, 49, 46, 48, 95, 88, 35, 48, 48, 48, 48, 48, 48, 48, 50>>,
   <<95, 95, 114, 101, 99, 105, 112, 95, 118, 101, 114, 115, 105, 111,
   110, 49, 46, 48, 95, 35, 48, 48, 48, 48, 48, 48, 48, 51, 35, 52>>,
   <<95, 95, 97, 116, 116, 97, 99, 104, 95, 118, 101, 114, 115, 105, 111,
   110, 49, 46, 48, 95, 35, 48, 48, 48, 48, 48, 48, 48, 49>>,
   <<95, 95, 97, 116, 116, 97, 99, 104, 95, 118, 101, 114, 115, 105, 111,
   110, 49, 46, 48, 95>>,
   <<95, 95, 97, 116, 116, 97, 99, 104, 95, 118, 101, 114, 115, 105, 111,
   110, 49, 46, 48, 35, 48, 48, 48, 48, 48, 48, 48, 49>>,
   <<95, 95, 115, 117, 98, 115, 116, 103, 49, 46, 48, 95, 51, 48, 48, 49,
   48, 48, 49, 70>>,
   <<>>,
   <<35, 48, 48, 48, 48, 48, 48, 48, 49>>,
   <<95, 95, 114, 101, 99, 105, 112, 95, 118, 101, 114, 115, 105, 111,
   110, 49, 46, 48, 95, 35, 233, 48, 48, 48, 48, 48, 48>>}

\* names of streams
\*   "__substg1.0_3001001F"
\*   "__substg1.0_30010102"
\*   "__substg1.0_3001000D"
\*   "__substg1.0_3001001f"
\*   "__substg1.0_FFFF001F"
\*   "__substg1.0_FFFF000D"
\*   "__substg1.0_0C1F001F"
\*   "__substg1.0"
\*   "__substg1.0_"
\*   "__substg1.0_300"
\*   "__substg1.0_3001"
\*   "__substg1.0_3001_001F"
\*   "__substg1.0_3001XX001F"
\*   "__substg1.0_300é001F"
\*   "__substg1.0_3001é01F"
\*   "__properties_version1.0"
\*   "Xsubstg1.0_3001001F"
\*   ""
StreamNames ==
  {<<95, 95, 115, 117, 98, 115, 116, 103, 49, 46, 48, 95, 51, 48, 48, 49,
   48, 48, 49, 70>>,
   <<95, 95, 115, 117, 98, 115, 116, 103, 49, 46, 48, 95, 51, 48, 48, 49,
   48, 49, 48, 50>>,
   <<95, 95, 115, 117, 98, 115, 116, 103, 49, 46, 48, 95, 51, 48, 48, 49,
   48, 48, 48, 68>>,
   <<95, 95, 115, 117, 98, 115, 116, 103, 49, 46, 48, 95, 51, 48, 48, 49,
   48, 48, 49, 102>>,
   <<95, 95, 115, 117, 98, 115, 116, 103, 49, 46, 48, 95, 70, 70, 70, 70,
   48, 48, 49, 70>>,
   <<95, 95, 115, 117, 98, 115, 116, 103, 49, 46, 48, 95, 70, 70, 70, 70,
   48, 48, 48, 68>>,
   <<95, 95, 115, 117, 98, 115, 116, 103, 49, 46, 48, 95, 48, 67, 49, 70,
   48, 48, 49, 70>>,
   <<95, 95, 115, 117, 98, 115, 116, 103, 49, 46, 48>>,
   <<95, 95, 115, 117, 98, 115, 116, 103, 49, 46, 48, 95>>,
   <<95, 95, 115, 117, 98, 115, 116, 103, 49, 46, 48, 95, 51, 48, 48>>,
   <<95, 95, 115, 117, 98, 115, 116, 103, 49, 46, 48, 95, 51, 48, 48,
   49>>,
   <<95, 95, 115, 117, 98, 115, 116, 103, 49, 46, 48, 95, 51, 48, 48, 49,
   95, 48, 48, 49, 70>>,
   <<95, 95, 115, 117, 98, 115, 116, 103, 49, 46, 48, 95, 51, 48, 48, 49,
   88, 88, 48, 48, 49, 70>>,
   <<95, 95, 115, 117, 98, 115, 116, 103, 49, 46, 48, 95, 51, 48, 48,
   233, 48, 48, 49, 70>>,
   <<95, 95, 115, 117, 98, 115, 116, 103, 49, 46, 48, 95, 51, 48, 48, 49,
   233, 48, 49, 70>>,
   <<95, 95, 112, 114, 111, 112, 101, 114, 116, 105, 101, 115, 95, 118,
   101, 114, 115, 105, 111, 110, 49, 46, 48>>,
   <<88, 115, 117, 98, 115, 116, 103, 49, 46, 48, 95, 51, 48, 48, 49, 48,
   48, 49, 70>>,
   <<>>}

\* "__substg1.0_3001001F", "__substg1.0_3703001F", "__substg1.0_0C1F001F"
DisplayNameStream ==
  <<95, 95, 115, 117, 98, 115, 116, 103, 49, 46, 48, 95, 51, 48, 48, 49,
  48, 48, 49, 70>>
AttachExtensionStream ==
  <<95, 95, 115, 117, 98, 115, 116, 103, 49, 46, 48, 95, 51, 55, 48, 51,
  48, 48, 49, 70>>
SenderEmailAddressStream ==
  <<95, 95, 115, 117, 98, 115, 116, 103, 49, 46, 48, 95, 48, 67, 49, 70,
  48, 48, 49, 70>>
\* "__substg1.0_30010102", "__substg1.0_3001000D"
DisplayNameBinary ==
  <<95, 95, 115, 117, 98, 115, 116, 103, 49, 46, 48, 95, 51, 48, 48, 49,
  48, 49, 48, 50>>
DisplayNameOther ==
  <<95, 95, 115, 117, 98, 115, 116, 103, 49, 46, 48, 95, 51, 48, 48, 49,
  48, 48, 48, 68>>
\* "__attach_version1.0_#00000000", "__recip_version1.0_#00000000",
\* "__recip_version1.0_#0000000A"
SecondStorages ==
  {<<95, 95, 97, 116, 116, 97, 99, 104, 95, 118, 101, 114, 115, 105, 111,
   110, 49, 46, 48, 95, 35, 48, 48, 48, 48, 48, 48, 48, 48>>,
   <<95, 95, 114, 101, 99, 105, 112, 95, 118, 101, 114, 115, 105, 111,
   110, 49, 46, 48, 95, 35, 48, 48, 48, 48, 48, 48, 48, 48>>,
   <<95, 95, 114, 101, 99, 105, 112, 95, 118, 101, 114, 115, 105, 111,
   110, 49, 46, 48, 95, 35, 48, 48, 48, 48, 48, 48, 48, 65>>}

\* a root with two storages, each with one stream
StorageFiles ==
  { MsgFile(<<MsgRoot,
              NamedEnt(n1, 1, FREE_SECID_U32, 3, 2, 0, 0),
              NamedEnt(DisplayNameStream, 2, FREE_SECID_U32, FREE_SECID_U32,
                       FREE_SECID_U32, 0, 2),
              NamedEnt(n3, 1, FREE_SECID_U32, FREE_SECID_U32, 4, 0, 0),
              NamedEnt(AttachExtensionStream, 2, FREE_SECID_U32,
                       FREE_SECID_U32, FREE_SECID_U32, 1, 8)>>,
            EndEnd, TextA, TextDoc) :
      n1 \in StorageNames, n3 \in SecondStorages }

\* a root with two streams and two unused entries
StreamFiles ==
  { MsgFile(<<MsgRoot,
              NamedEnt(n1, 2, FREE_SECID_U32, 2, FREE_SECID_U32, 0, 2),
              NamedEnt(SenderEmailAddressStream, 2, FREE_SECID_U32,
                       FREE_SECID_U32, FREE_SECID_U32, 1, 8),
              NoEnt, NoEnt>>,
            EndEnd, TextA, TextDoc) :
      n1 \in StreamNames }

\* the bytes of a stream, its size, its first short sector and the SSAT
StreamContents ==
  {[data |-> TextA, size |-> 2, start |-> 0, ssat |-> EndEnd],
   [data |-> <<65, 0, 0, 0>>, size |-> 4, start |-> 0, ssat |-> EndEnd],
   [data |-> <<65, 0, 66>>, size |-> 3, start |-> 0, ssat |-> EndEnd],
   [data |-> <<233, 0, 1, 3>>, size |-> 4, start |-> 0, ssat |-> EndEnd],
   [data |-> <<0, 216>>, size |-> 2, start |-> 0, ssat |-> EndEnd],
   [data |-> <<65, 0, 0, 220>>, size |-> 4, start |-> 0, ssat |-> EndEnd],
   [data |-> <<61, 216, 0, 222>>, size |-> 4, start |-> 0, ssat |-> EndEnd],
   [data |-> TextA, size |-> 0, start |-> 0, ssat |-> EndEnd],
   [data |-> TextA, size |-> 66, start |-> 0, ssat |-> EndEnd],
   [data |-> TextA, size |-> 66, start |-> 0, ssat |-> <<1, -2>>],
   [data |-> TextA, size |-> 2, start |-> 9, ssat |-> EndEnd],
   [data |-> TextA, size |-> 2, start |-> 0, ssat |-> <<-1, -2>>]}

\* a root with one stream of each content and each type code
ContentFiles ==
  { MsgFile(<<MsgRoot,
              NamedEnt(n1, 2, FREE_SECID_U32, FREE_SECID_U32,
                       FREE_SECID_U32, c.start, c.size),
              NoEnt, NoEnt, NoEnt>>,
            c.ssat, c.data, TextDoc) :
      n1 \in {DisplayNameStream, DisplayNameBinary, DisplayNameOther},
      c \in StreamContents }

\* a root with two storages that hold a stream of the same name: the second
\* storage is a sibling of the first one or lies inside it
SameKeyFiles ==
  { MsgFile(<<MsgRoot,
              NamedEnt(n1, 1, FREE_SECID_U32,
                       IF nested THEN FREE_SECID_U32 ELSE 3, 2, 0, 0),
              NamedEnt(DisplayNameStream, 2, FREE_SECID_U32,
                       IF nested THEN 3 ELSE FREE_SECID_U32,
                       FREE_SECID_U32, 0, 2),
              NamedEnt(n3, 1, FREE_SECID_U32, FREE_SECID_U32, 4, 0, 0),
              NamedEnt(DisplayNameStream, 2, FREE_SECID_U32,
                       FREE_SECID_U32, FREE_SECID_U32, 1, 8)>>,
            EndEnd, TextA, TextDoc) :
      n1 \in SecondStorages, n3 \in SecondStorages, nested \in BOOLEAN }

MsgFiles == StorageFiles \cup StreamFiles \cup ContentFiles \cup SameKeyFiles

Files == HeaderFiles \cup BodyFiles \cup MsatFiles \cup MsgFiles

-----------------------------------------------------------------------------
(* Reader::new (src/src/ole/ole.rs) and parse_header (src/src/ole/header.rs) *)

NoLoc == [total |-> 0, sec_id |-> 0, buffer_len |-> 0, steps |-> 0,
          i |-> 0, chain |-> <<>>, ents |-> <<>>]
NoWalk == [table |-> "", start |-> 0, cur |-> 0, chain |-> <<>>]
NoSlice == [max_chunk_size |-> 0, chunks |-> <<>>, read |-> 0,
            total_size |-> 0, real_size |-> 0]
NoLast == [op |-> "", entry |-> 0, res |-> Running, n |-> 0, buf |-> 0,
           pieces |-> <<>>]
NoCall == [fn |-> "", arg |-> <<>>, ret |-> <<>>]

Init ==
  /\ file \in Files
  /\ pc = "read_header"
  /\ result = Running
  /\ header = NONE
  /\ sec_size = NONE
  /\ short_sec_size = NONE
  /\ minimum_standard_stream_size = NONE
  /\ msat = NONE
  /\ sat = NONE
  /\ ssat = NONE
  /\ dsat = NONE
  /\ body = NONE
  /\ entries = NONE
  /\ root_entry = NONE
  /\ loc = NoLoc
  /\ walk = NoWalk
  /\ stack = <<>>
  /\ slice = NONE
  /\ last = NoLast
  /\ storages = NONE
  /\ outlook = NONE
  /\ call = NoCall

\* Reader::new returns Err(e) or aborts: the position stays where it failed
Fail(e) ==
  /\ result' = e
  /\ UNCHANGED <<parserVars, file, pc, header, readerVars, loc, walk, stack, slice, last>>

\* [mutant] the magic is looked at as soon as its 8 bytes are there
HeaderAvailable_M(f) == f.len >= Len(IDENTIFIER)

\* self.read(&mut header) on a source of file.len bytes
HeaderAvailable(f) == f.len >= HEADER_SIZE

ReadHeader ==
  /\ pc = "read_header" /\ result = Running
  /\ IF HeaderAvailable(file)
     THEN /\ header' = Some(file.hdr)
          /\ pc' = "check_magic"
          /\ UNCHANGED <<parserVars, file, result, readerVars, loc, walk, stack, slice,
                         last>>
     ELSE Fail(IOError(UnexpectedEof))

\* [mutant] the last byte of the identifier is not compared
MagicOk_M(h) == SubSeq(h.magic, 1, 7) = SubSeq(IDENTIFIER, 1, 7)

MagicOk(h) == h.magic = IDENTIFIER

CheckMagic ==
  /\ pc = "check_magic" /\ result = Running
  /\ IF MagicOk(Get(header))
     THEN /\ pc' = "check_endian"
          /\ UNCHANGED <<parserVars, file, result, header, readerVars, loc, walk, stack,
                         slice, last>>
     ELSE Fail(InvalidOLEFile)

\* [mutant] every marker other than the big-endian one is accepted
EndianCheck_M(h) ==
  IF h.endian = BIG_ENDIAN_IDENTIFIER THEN NotImplementedYet ELSE Ok

\* the outcome of the endianness check: an error, or Ok to go on
EndianCheck(h) ==
  IF h.endian = BIG_ENDIAN_IDENTIFIER THEN NotImplementedYet
  ELSE IF h.endian # LITTLE_ENDIAN_IDENTIFIER THEN InvalidOLEFile
  ELSE Ok

\* [mutant] the sector-size exponent is looked at before the marker
CheckEndian_M ==
  /\ pc = "check_endian" /\ result = Running
  /\ IF FromSlice(Get(header).k) >= MaxSizeExponent
     THEN Fail(BadSizeValue("Overflow on sector\n            size"))
     ELSE IF EndianCheck(Get(header)) = Ok
     THEN /\ pc' = "sec_size"
          /\ UNCHANGED <<parserVars, file, result, header, readerVars, loc,
                         walk, stack, slice, last>>
     ELSE Fail(EndianCheck(Get(header)))

CheckEndian ==
  /\ pc = "check_endian" /\ result = Running
  /\ IF EndianCheck(Get(header)) = Ok
     THEN /\ pc' = "sec_size"
          /\ UNCHANGED <<parserVars, file, result, header, readerVars, loc, walk, stack,
                         slice, last>>
     ELSE Fail(EndianCheck(Get(header)))

\* [mutant] the exponent 16 is let through
SizeOverflows_M(k) == k > MaxSizeExponent

\* k >= 16 is rejected, otherwise the size is 2usize.pow(k)
SizeOverflows(k) == k >= MaxSizeExponent
SizeOf(k) == Pow(2, k)

CheckSecSize ==
  /\ pc = "sec_size" /\ result = Running
  /\ LET k == FromSlice(Get(header).k) IN
     IF SizeOverflows(k)
     THEN Fail(BadSizeValue("Overflow on sector\n            size"))
     ELSE /\ sec_size' = Some(SizeOf(k))
          /\ pc' = "short_sec_size"
          /\ UNCHANGED <<parserVars, file, result, header, short_sec_size,
                         minimum_standard_stream_size, msat, sat, ssat, dsat,
                         body, entries, root_entry, loc, walk, stack, slice,
                         last>>

CheckShortSecSize ==
  /\ pc = "short_sec_size" /\ result = Running
  /\ LET k == FromSlice(Get(header).k2) IN
     IF SizeOverflows(k)
     THEN Fail(BadSizeValue("Overflow on short sector size"))
     ELSE /\ short_sec_size' = Some(SizeOf(k))
          /\ pc' = "min_size"
          /\ UNCHANGED <<parserVars, file, result, header, sec_size,
                         minimum_standard_stream_size, msat, sat, ssat, dsat,
                         body, entries, root_entry, loc, walk, stack, slice,
                         last>>

\* [mutant] the cutoff 4095 is let through
MinSizeTooSmall_M(v) == v < MinStreamCutoff - 1

\* [mutant] the cutoff is reported like a bad sector size
MinSizeError_M == BadSizeValue("Bad minimum standard stream size")

\* the error of a minimum standard stream size below 4096
MinSizeTooSmall(v) == v < MinStreamCutoff
MinSizeError == InvalidOLEFile

\* the field is stored before it is checked
CheckMinSize ==
  /\ pc = "min_size" /\ result = Running
  /\ LET v == FromSlice(Get(header).min) IN
     /\ minimum_standard_stream_size' = Some(v)
     /\ IF MinSizeTooSmall(v)
        THEN /\ result' = MinSizeError
             /\ pc' = pc
        ELSE /\ result' = result
             /\ pc' = "seed_tables"
     /\ UNCHANGED <<parserVars, file, header, sec_size, short_sec_size, msat, sat, ssat,
                    dsat, body, entries, root_entry, loc, walk, stack, slice,
                    last>>

\* words of one sector of sec_size bytes
WordsPerSector == Get(sec_size) \div 4

SeedTables ==
  /\ pc = "seed_tables" /\ result = Running
  /\ LET h == Get(header) IN
     /\ sat' = Some(<<>>)
     /\ dsat' = Some(<<h.dsat>>)
     /\ ssat' = Some(<<h.ssat>>)
     /\ msat' = Some(IF h.msat_next # END_OF_CHAIN_SECID_U32
                     THEN Fill(FREE_SECID_U32,
                               HeaderMsatLen + h.n_msat * WordsPerSector)
                     ELSE Fill(FREE_SECID_U32, HeaderMsatLen))
  /\ pc' = "msat_header"
  /\ UNCHANGED <<parserVars, file, result, header, sec_size, short_sec_size,
                 minimum_standard_stream_size, body, entries, root_entry,
                 loc, walk, stack, slice, last>>

-----------------------------------------------------------------------------
(* build_master_sector_allocation_table and read_sec_ids                    *)
(* (src/src/ole/header.rs)                                                  *)

\* read_sec_ids: copies SECIDs of buffer into m[msat_offset ..] up to the
\* first free SECID; an index outside m aborts
\* the number of SECIDs of buffer before the first free one
SecIdsBeforeFree(buffer) ==
  CHOOSE i \in 0..Len(buffer) :
    /\ i = Len(buffer) \/ buffer[i + 1] = FREE_SECID_U32
    /\ \A j \in 1..i : buffer[j] # FREE_SECID_U32

ReadSecIds(buffer, m, msat_offset) ==
  LET n == SecIdsBeforeFree(buffer) IN
  IF msat_offset > Len(m) \/ msat_offset + n > Len(m)
  THEN [panic |-> TRUE, n |-> n, msat |-> m]
  ELSE [panic |-> FALSE, n |-> n,
        msat |-> [i \in 1..Len(m) |->
                    IF i > msat_offset /\ i <= msat_offset + n
                    THEN buffer[i - msat_offset] ELSE m[i]]]

ReadHeaderSecIds ==
  /\ pc = "msat_header" /\ result = Running
  /\ LET r == ReadSecIds(Get(header).msat, Get(msat), 0) IN
     /\ msat' = Some(r.msat)
     /\ loc' = [loc EXCEPT !.total = r.n,
                           !.sec_id = Get(header).msat_next,
                           !.buffer_len = 0, !.steps = 0]
     /\ pc' = IF r.n = HeaderMsatLen THEN "msat_chain" ELSE "msat_finish"
  /\ UNCHANGED <<parserVars, file, result, header, sec_size, short_sec_size,
                 minimum_standard_stream_size, sat, ssat, dsat, body,
                 entries, root_entry, walk, stack, slice, last>>

\* words [from, from + n) of the body
BodyWords(blk, from, n) == [j \in 1..n |-> BodyWord(blk, from + j - 1)]

\* the loop is left after more steps than the buffer has sectors
MsatLoopDetected(steps, size, buffer_len) == steps * size > buffer_len

\* one iteration of the while loop over the continuation chain; the SECIDs
\* of the inputs are small enough for buffer.resize to be possible
MsatChainStep ==
  /\ pc = "msat_chain" /\ result = Running
  /\ loc.sec_id # END_OF_CHAIN_SECID_U32
  /\ loc.sec_id >= 0
  /\ LET size == Get(sec_size)
         relative_offset == loc.sec_id * size
         grow == loc.buffer_len < relative_offset + size
         new_len == IF grow THEN relative_offset + size ELSE loc.buffer_len
         steps0 == IF grow THEN 0 ELSE loc.steps
         r == ReadSecIds(BodyWords(file.blk, loc.sec_id * (size \div 4),
                                   (size \div 4) - 1),
                         Get(msat), loc.total)
         next == BodyWord(file.blk, loc.sec_id * (size \div 4)
                                    + (size \div 4) - 1)
     IN
     IF grow /\ file.len - HEADER_SIZE < new_len
     THEN Fail(IOError(UnexpectedEof))
     ELSE IF size < 4
     THEN Fail(Panic("attempt to subtract with overflow"))
     ELSE IF r.panic
     THEN Fail(Panic("index out of bounds"))
     ELSE /\ msat' = Some(r.msat)
          /\ loc' = [loc EXCEPT !.total = loc.total + r.n,
                                !.sec_id = next,
                                !.buffer_len = new_len,
                                !.steps = steps0 + 1]
          /\ result' = IF MsatLoopDetected(steps0 + 1, size, new_len)
                       THEN InvalidOLEFile ELSE result
          /\ UNCHANGED <<parserVars, file, pc, header, sec_size, short_sec_size,
                         minimum_standard_stream_size, sat, ssat, dsat, body,
                         entries, root_entry, walk, stack, slice, last>>

\* the chain ended: the buffer is kept as the body
MsatChainEnd ==
  /\ pc = "msat_chain" /\ result = Running
  /\ loc.sec_id = END_OF_CHAIN_SECID_U32
  /\ body' = Some([len |-> loc.buffer_len, blk |-> file.blk])
  /\ pc' = "msat_finish"
  /\ UNCHANGED <<parserVars, file, result, header, sec_size, short_sec_size,
                 minimum_standard_stream_size, msat, sat, ssat, dsat,
                 entries, root_entry, loc, walk, stack, slice, last>>

\* msat.resize(total_sec_id_read) and read_to_end
MsatFinish ==
  /\ pc = "msat_finish" /\ result = Running
  /\ msat' = Some(SubSeq(Get(msat), 1, loc.total))
  /\ body' = Some([len |-> file.len - HEADER_SIZE, blk |-> file.blk])
  /\ loc' = [loc EXCEPT !.i = 0]
  /\ pc' = "build_sat"
  /\ UNCHANGED <<parserVars, file, result, header, sec_size, short_sec_size,
                 minimum_standard_stream_size, sat, ssat, dsat,
                 entries, root_entry, walk, stack, slice, last>>

-----------------------------------------------------------------------------
(* read_sector (src/src/ole/sector.rs), build_sat, build_ssat, build_dsat   *)
(* and the chain walks (src/src/ole/sat.rs)                                 *)

\* read_sector returns Ok: the sector lies inside the body
SectorReadable(sector_index) ==
  /\ sector_index >= 0
  /\ Get(body).len >= Get(sec_size) * sector_index + Get(sec_size)

FileTooShort == BadSizeValue("File is too short")

\* read_sat_sector: the SECIDs of one sector
SatSector(sector_index) ==
  BodyWords(Get(body).blk, sector_index * WordsPerSector, WordsPerSector)

BuildSatStep ==
  /\ pc = "build_sat" /\ result = Running
  /\ IF Len(Get(msat)) = 0
     THEN Fail(EmptyMasterSectorAllocationTable)
     ELSE IF loc.i < Len(Get(msat))
     THEN LET sector_index == Get(msat)[loc.i + 1] IN
          IF ~SectorReadable(sector_index)
          THEN Fail(FileTooShort)
          ELSE /\ sat' = Some(Get(sat) \o SatSector(sector_index))
               /\ loc' = [loc EXCEPT !.i = loc.i + 1]
               /\ UNCHANGED <<parserVars, file, pc, result, header, sec_size,
                              short_sec_size, minimum_standard_stream_size,
                              msat, ssat, dsat, body, entries, root_entry,
                              walk, stack, slice, last>>
     ELSE /\ pc' = "build_ssat"
          /\ UNCHANGED <<parserVars, file, result, header, readerVars, loc, walk, stack,
                         slice, last>>

\* bound of the model on the length of a chain under construction; the
\* program has none
MaxChain == 40

\* [mutant] a walk in the SAT stops at a free SECID too
SatTerminators_M == {END_OF_CHAIN_SECID_U32, FREE_SECID_U32}

\* the SECIDs at which a walk stops
SatTerminators == {END_OF_CHAIN_SECID_U32}
SsatTerminators == {END_OF_CHAIN_SECID_U32, FREE_SECID_U32}

WalkDone(w, terminators) == w.cur \in terminators

\* one iteration of the while loop of build_chain_from_sat /
\* build_chain_from_ssat over the table: the walk after it, or an abort on
\* an index outside the table
WalkNext(w, table) ==
  IF InRange(w.cur, Len(table))
  THEN [panic |-> FALSE,
        w |-> [w EXCEPT !.chain = Append(w.chain, w.cur),
                        !.cur = table[w.cur + 1]]]
  ELSE [panic |-> TRUE, w |-> [w EXCEPT !.chain = Append(w.chain, w.cur)]]

StartWalk(table, start) ==
  [table |-> table, start |-> start, cur |-> start, chain |-> <<>>]

TableOf(w) == IF w.table = "sat" THEN Get(sat) ELSE Get(ssat)
TerminatorsOf(w) ==
  IF w.table = "sat" THEN SatTerminators ELSE SsatTerminators

WalkPcs == {"ssat_walk", "dsat_walk", "entry_walk"}

WalkStep ==
  /\ pc \in WalkPcs /\ result = Running
  /\ ~WalkDone(walk, TerminatorsOf(walk))
  /\ Len(walk.chain) < MaxChain
  /\ LET r == WalkNext(walk, TableOf(walk)) IN
     /\ walk' = r.w
     /\ result' = IF r.panic THEN Panic("index out of bounds") ELSE result
  /\ UNCHANGED <<parserVars, file, pc, header, readerVars, loc, stack, slice, last>>

BuildSsatStart ==
  /\ pc = "build_ssat" /\ result = Running
  /\ walk' = StartWalk("sat", Get(ssat)[1])
  /\ ssat' = Some(Tail(Get(ssat)))
  /\ pc' = "ssat_walk"
  /\ UNCHANGED <<parserVars, file, result, header, sec_size, short_sec_size,
                 minimum_standard_stream_size, msat, sat, dsat, body,
                 entries, root_entry, loc, stack, slice, last>>

BuildSsatWalked ==
  /\ pc = "ssat_walk" /\ result = Running
  /\ WalkDone(walk, TerminatorsOf(walk))
  /\ loc' = [loc EXCEPT !.chain = walk.chain, !.i = 0]
  /\ pc' = "ssat_read"
  /\ UNCHANGED <<parserVars, file, result, header, readerVars, walk, stack, slice, last>>

BuildSsatRead ==
  /\ pc = "ssat_read" /\ result = Running
  /\ IF loc.i < Len(loc.chain)
     THEN LET sector_index == loc.chain[loc.i + 1] IN
          IF ~SectorReadable(sector_index)
          THEN Fail(FileTooShort)
          ELSE /\ ssat' = Some(Get(ssat) \o SatSector(sector_index))
               /\ loc' = [loc EXCEPT !.i = loc.i + 1]
               /\ UNCHANGED <<parserVars, file, pc, result, header, sec_size,
                              short_sec_size, minimum_standard_stream_size,
                              msat, sat, dsat, body, entries, root_entry,
                              walk, stack, slice, last>>
     ELSE /\ walk' = StartWalk("sat", Get(dsat)[1])
          /\ dsat' = Some(Tail(Get(dsat)))
          /\ pc' = "dsat_walk"
          /\ UNCHANGED <<parserVars, file, result, header, sec_size, short_sec_size,
                         minimum_standard_stream_size, msat, sat, ssat, body,
                         entries, root_entry, loc, stack, slice, last>>

BuildDsatWalked ==
  /\ pc = "dsat_walk" /\ result = Running
  /\ WalkDone(walk, TerminatorsOf(walk))
  /\ dsat' = Some(Get(dsat) \o walk.chain)
  /\ loc' = [loc EXCEPT !.i = 0, !.ents = <<>>]
  /\ pc' = "read_dir"
  /\ UNCHANGED <<parserVars, file, result, header, sec_size, short_sec_size,
                 minimum_standard_stream_size, msat, sat, ssat, body,
                 entries, root_entry, walk, stack, slice, last>>

-----------------------------------------------------------------------------
(* Directory entries (src/src/ole/entry.rs)                                 *)

\* EntryType::from
Empty == 0
UserStorage == 1
UserStream == 2
LockBytes == 3
Property == 4
RootStorage == 5

EntryTypeKnown(t) == t \in {Empty, UserStorage, UserStream, LockBytes,
                            Property, RootStorage}
\* NodeColour::from
NodeColourKnown(c) == c \in {0, 1}

\* byte 2u of the 64 name bytes of the entry at word `base`
NameByte(blk, base, u) == ByteOf(BodyWord(blk, base + (u \div 2)), (u % 2) * 2)

\* Entry::build_name: the bytes at the even offsets, as chars, up to the
\* first one that is 0
BuildName(blk, base) ==
  LET n == CHOOSE k \in 0..32 :
             /\ k = 32 \/ NameByte(blk, base, k) = 0
             /\ \A u \in 0..(k - 1) : NameByte(blk, base, u) # 0
  IN [u \in 1..n |-> NameByte(blk, base, u - 1)]

\* Entry::from_slice on the 128 bytes that start at word `base` of the body
EntryFromSlice(blk, base, dir_id) ==
  [id |-> dir_id,
   name |-> BuildName(blk, base),
   entry_type |-> ByteOf(BodyWord(blk, base + 16), 2),
   color |-> ByteOf(BodyWord(blk, base + 16), 3),
   left_child_node |-> BodyWord(blk, base + 17),
   right_child_node |-> BodyWord(blk, base + 18),
   root_node |-> BodyWord(blk, base + 19),
   sec_id_chain |-> <<BodyWord(blk, base + 29)>>,
   size |-> BodyWord(blk, base + 30),
   children_nodes |-> <<>>,
   parent_node |-> NONE]

EntryDecodes(e) == EntryTypeKnown(e.entry_type) /\ NodeColourKnown(e.color)

NEntryBySector == Get(sec_size) \div DIRECTORY_ENTRY_SIZE

\* the entries of directory sector sector_index, numbered from k
SectorEntries(sector_index, k) ==
  [l \in 1..NEntryBySector |->
     EntryFromSlice(Get(body).blk,
                    sector_index * WordsPerSector + (l - 1) * BlockWords,
                    k + l - 1)]

\* one iteration of the loop over the directory sectors
ReadDirSector ==
  /\ pc = "read_dir" /\ result = Running
  /\ IF loc.i < Len(Get(dsat))
     THEN LET sector_index == Get(dsat)[loc.i + 1]
              es == SectorEntries(sector_index, Len(loc.ents))
          IN
          IF ~SectorReadable(sector_index)
          THEN Fail(FileTooShort)
          ELSE IF \E l \in DOMAIN es : ~EntryDecodes(es[l])
          THEN Fail(NodeTypeUnknown)
          ELSE /\ loc' = [loc EXCEPT !.i = loc.i + 1, !.ents = loc.ents \o es]
               /\ UNCHANGED <<parserVars, file, pc, result, header, readerVars, walk,
                              stack, slice, last>>
     ELSE /\ loc' = [loc EXCEPT !.i = 0]
          /\ pc' = "resolve"
          /\ UNCHANGED <<parserVars, file, result, header, readerVars, walk, stack,
                         slice, last>>

\* the table in which the chain of an entry is resolved: "ssat", "sat", or
\* "" for an entry whose chain is left as read
IsShort(size, stream_size) == size < stream_size

\* [mutant] every stream is resolved in the SAT
ChainTable_M(e, stream_size) ==
  IF e.entry_type = UserStream \/ e.entry_type = RootStorage
  THEN "sat" ELSE ""

ChainTable(e, stream_size) ==
  IF e.entry_type = UserStream
  THEN IF IsShort(e.size, stream_size) THEN "ssat" ELSE "sat"
  ELSE IF e.entry_type = RootStorage THEN "sat"
  ELSE ""

Frame(id, parent_id, stage) ==
  [id |-> id, parent_id |-> parent_id, stage |-> stage]

\* one iteration of the loop that resolves the chains; after the last one
\* the entries are stored and build_entry_tree(0, None) is called
ResolveEntry ==
  /\ pc = "resolve" /\ result = Running
  /\ IF loc.i < Len(loc.ents)
     THEN LET e == loc.ents[loc.i + 1]
              t == ChainTable(e, Get(minimum_standard_stream_size))
          IN
          IF t = ""
          THEN /\ loc' = [loc EXCEPT !.i = loc.i + 1]
               /\ UNCHANGED <<parserVars, file, pc, result, header, readerVars, walk,
                              stack, slice, last>>
          ELSE /\ walk' = StartWalk(t, e.sec_id_chain[1])
               /\ root_entry' = IF e.entry_type = RootStorage
                                THEN Some(loc.i) ELSE root_entry
               /\ pc' = "entry_walk"
               /\ UNCHANGED <<parserVars, file, result, header, sec_size, short_sec_size,
                              minimum_standard_stream_size, msat, sat, ssat,
                              dsat, body, entries, loc, stack, slice, last>>
     ELSE /\ entries' = Some(loc.ents)
          /\ stack' = <<Frame(0, NONE, "enter")>>
          /\ pc' = "tree"
          /\ UNCHANGED <<parserVars, file, result, header, sec_size, short_sec_size,
                         minimum_standard_stream_size, msat, sat, ssat, dsat,
                         body, root_entry, loc, walk, slice, last>>

ResolveWalked ==
  /\ pc = "entry_walk" /\ result = Running
  /\ WalkDone(walk, TerminatorsOf(walk))
  /\ loc' = [loc EXCEPT !.ents[loc.i + 1].sec_id_chain = walk.chain,
                        !.i = loc.i + 1]
  /\ pc' = "resolve"
  /\ UNCHANGED <<parserVars, file, result, header, readerVars, walk, stack, slice, last>>

\* build_entry_tree, one step of the frame on top of the call stack.  A
\* stack deeper than the directory has entries holds some entry twice: the
\* recursion then never ends and the thread aborts on stack exhaustion.
Push(st, f) == Append(st, f)
Pop(st) == SubSeq(st, 1, Len(st) - 1)
SetTop(st, stage) == [st EXCEPT ![Len(st)].stage = stage]

\* [mutant] the child link of every entry is followed
IsStorage_M(t) == t = t

IsStorage(t) == t = RootStorage \/ t = UserStorage

\* the recursion follows a left or right link only if it is below n
FollowsLink(link, n) == U32Lt(link, n)

TreeStep ==
  /\ pc = "tree" /\ result = Running
  /\ stack # <<>>
  /\ LET f == stack[Len(stack)]
         es == Get(entries)
         n == Len(es)
     IN
     CASE f.stage = "enter" ->
            IF f.id = FREE_SECID_U32
            THEN /\ stack' = Pop(stack)
                 /\ UNCHANGED <<entries, result>>
            ELSE IF ~InRange(f.id, n)
            THEN /\ result' = Panic("index out of bounds")
                 /\ UNCHANGED <<entries, stack>>
            ELSE IF Len(stack) > n
            THEN /\ result' = Panic("stack overflow")
                 /\ UNCHANGED <<entries, stack>>
            ELSE LET es1 == [es EXCEPT ![f.id + 1].parent_node = f.parent_id]
                     es2 == IF f.parent_id # NONE
                            THEN [es1 EXCEPT
                                    ![Get(f.parent_id) + 1].children_nodes =
                                       Append(@, f.id)]
                            ELSE es1
                 IN
                 /\ entries' = Some(es2)
                 /\ stack' = IF IsStorage(es[f.id + 1].entry_type)
                             THEN Push(SetTop(stack, "left"),
                                       Frame(es[f.id + 1].root_node,
                                             Some(f.id), "enter"))
                             ELSE SetTop(stack, "left")
                 /\ UNCHANGED result
       [] f.stage = "left" ->
            /\ stack' = IF FollowsLink(es[f.id + 1].left_child_node, n)
                        THEN Push(SetTop(stack, "right"),
                                  Frame(es[f.id + 1].left_child_node,
                                        f.parent_id, "enter"))
                        ELSE SetTop(stack, "right")
            /\ UNCHANGED <<entries, result>>
       [] f.stage = "right" ->
            /\ stack' = IF FollowsLink(es[f.id + 1].right_child_node, n)
                        THEN Push(SetTop(stack, "return"),
                                  Frame(es[f.id + 1].right_child_node,
                                        f.parent_id, "enter"))
                        ELSE Pop(stack)
            /\ UNCHANGED <<entries, result>>
       [] f.stage = "return" ->
            /\ stack' = Pop(stack)
            /\ UNCHANGED <<entries, result>>
  /\ UNCHANGED <<parserVars, file, pc, header, sec_size, short_sec_size,
                 minimum_standard_stream_size, msat, sat, ssat, dsat, body,
                 root_entry, loc, walk, slice, last>>

\* build_entry_tree(0, None) returned: Reader::new returns Ok(t)
TreeDone ==
  /\ pc = "tree" /\ result = Running
  /\ stack = <<>>
  /\ result' = Ok
  /\ pc' = "ready"
  /\ UNCHANGED <<parserVars, file, header, readerVars, loc, walk, stack, slice, last>>

-----------------------------------------------------------------------------
(* EntrySlice and get_entry_slice (src/src/ole/entry.rs)                    *)

\* EntrySlice::new
NewSlice(max_chunk_size, size) ==
  [max_chunk_size |-> max_chunk_size, chunks |-> <<>>, read |-> 0,
   total_size |-> size, real_size |-> 0]

\* a chunk is &sector[start .. end] of sector sec of the body
Chunk(sec, start, end) == [sec |-> sec, start |-> start, end |-> end]
ChunkLen(c) == c.end - c.start

\* EntrySlice::add_chunk
AddChunk(sl, c) ==
  [sl EXCEPT !.real_size = sl.real_size + ChunkLen(c),
             !.chunks = Append(sl.chunks, c)]

SliceResult(res, sl) == [res |-> res, slice |-> sl]

\* the loop of get_stream_slices from the j-th SECID of the chain on
RECURSIVE StreamSlicesFrom(_, _, _, _, _)
StreamSlicesFrom(chain, size, j, total_read, sl) ==
  IF j > Len(chain) THEN SliceResult(Ok, sl)
  ELSE IF ~SectorReadable(chain[j]) THEN SliceResult(FileTooShort, sl)
  ELSE LET end == Min(Get(sec_size), size - total_read) IN
       StreamSlicesFrom(chain, size, j + 1, total_read + end,
                        AddChunk(sl, Chunk(chain[j], 0, end)))

GetStreamSlices(chain, size) ==
  StreamSlicesFrom(chain, size, 1, 0, NewSlice(Get(sec_size), size))

\* the loop of get_short_stream_slices from the j-th short SECID on;
\* short_stream_chain is the chain of entry 0
RECURSIVE ShortStreamSlicesFrom(_, _, _, _, _)
ShortStreamSlicesFrom(chain, size, j, total_read, sl) ==
  IF j > Len(chain) THEN SliceResult(Ok, sl)
  ELSE
    LET ssector_size == Get(short_sec_size)
        short_stream_chain == Get(entries)[1].sec_id_chain
        n_per_sector == Get(sec_size) \div ssector_size
    IN
    IF n_per_sector = 0
    THEN SliceResult(Panic("attempt to divide by zero"), sl)
    ELSE IF ~InRange(chain[j], Len(short_stream_chain) * n_per_sector)
    THEN SliceResult(Panic("index out of bounds"), sl)
    ELSE
      LET sector_index == short_stream_chain[(chain[j] \div n_per_sector) + 1]
          start == (chain[j] % n_per_sector) * ssector_size
          end == start + Min(ssector_size, size - total_read)
      IN
      IF ~SectorReadable(sector_index) THEN SliceResult(FileTooShort, sl)
      ELSE ShortStreamSlicesFrom(chain, size, j + 1,
                                 total_read + (end - start),
                                 AddChunk(sl, Chunk(sector_index, start, end)))

GetShortStreamSlices(chain, size) ==
  ShortStreamSlicesFrom(chain, size, 1, 0,
                        NewSlice(Get(short_sec_size), size))

\* [mutant] only a stream can be an empty entry
EntrySliceOf_M(e) ==
  IF e.size = 0 /\ e.entry_type = UserStream
  THEN SliceResult(EmptyEntry, NewSlice(0, 0))
  ELSE IF IsShort(e.size, Get(minimum_standard_stream_size))
  THEN GetShortStreamSlices(e.sec_id_chain, e.size)
  ELSE GetStreamSlices(e.sec_id_chain, e.size)

\* Reader::get_entry_slice
EntrySliceOf(e) ==
  IF e.size = 0 THEN SliceResult(EmptyEntry, NewSlice(0, 0))
  ELSE IF IsShort(e.size, Get(minimum_standard_stream_size))
  THEN GetShortStreamSlices(e.sec_id_chain, e.size)
  ELSE GetStreamSlices(e.sec_id_chain, e.size)

\* what a pass of the loop of EntrySlice::read copies:
\* &chunks[chunk][from .. to]
Piece(chunk, from, to) == [chunk |-> chunk, from |-> from, to |-> to]

ReadResult(panic, n, sl) ==
  [panic |-> panic, n |-> n, slice |-> sl, pieces |-> <<>>]

\* [mutant] the place in the chunk is taken from the bytes copied by this
\* call, not from the cursor
RECURSIVE ReadLoop_M(_, _, _)
ReadLoop_M(sl, to_read, read) ==
  IF read = to_read THEN ReadResult(FALSE, read, sl)
  ELSE
    LET chunk_index == sl.read \div sl.max_chunk_size IN
    IF chunk_index >= Len(sl.chunks) THEN ReadResult(FALSE, read, sl)
    ELSE
      LET chunk == sl.chunks[chunk_index + 1]
          local_offset == read % sl.max_chunk_size
          end == Min(local_offset + to_read - read, sl.max_chunk_size)
          r == ReadLoop_M([sl EXCEPT !.read = sl.read + (end - local_offset)],
                          to_read, read + (end - local_offset))
      IN
      IF end > ChunkLen(chunk) THEN ReadResult(TRUE, read, sl)
      ELSE [r EXCEPT !.pieces =
                       <<Piece(chunk_index, local_offset, end)>> \o @]

\* the while loop of EntrySlice::read: `read` bytes of the to_read asked
\* for have been copied so far
RECURSIVE ReadLoop(_, _, _)
ReadLoop(sl, to_read, read) ==
  IF read = to_read THEN ReadResult(FALSE, read, sl)
  ELSE
    LET chunk_index == sl.read \div sl.max_chunk_size IN
    IF chunk_index >= Len(sl.chunks) THEN ReadResult(FALSE, read, sl)
    ELSE
      LET chunk == sl.chunks[chunk_index + 1]
          local_offset == sl.read % sl.max_chunk_size
          end == Min(local_offset + to_read - read, sl.max_chunk_size)
          r == ReadLoop([sl EXCEPT !.read = sl.read + (end - local_offset)],
                        to_read, read + (end - local_offset))
      IN
      IF end > ChunkLen(chunk) THEN ReadResult(TRUE, read, sl)
      ELSE [r EXCEPT !.pieces =
                       <<Piece(chunk_index, local_offset, end)>> \o @]

\* [mutant] a call copies from one chunk only
ReadSliceInto_M(sl, buf_len) ==
  ReadLoop(sl, Min(Min(buf_len, sl.total_size - sl.read),
                   sl.max_chunk_size - (sl.read % sl.max_chunk_size)), 0)

\* EntrySlice::read into a buffer of buf_len bytes
ReadSliceInto(sl, buf_len) ==
  ReadLoop(sl, Min(buf_len, sl.total_size - sl.read), 0)

\* [mutant] the entry whose slice is handed out is left empty
GetEntrySlice_M ==
  /\ pc = "ready"
  /\ \E i \in 0..(Len(Get(entries)) - 1) :
       LET r == EntrySliceOf(Get(entries)[i + 1]) IN
       /\ slice' = IF r.res = Ok THEN Some(r.slice) ELSE NONE
       /\ last' = [op |-> "get_entry_slice", entry |-> i, res |-> r.res,
                   n |-> 0, buf |-> 0, pieces |-> <<>>]
       /\ pc' = IF IsPanic(r.res) THEN "aborted" ELSE pc
       /\ entries' = Some([Get(entries) EXCEPT ![i + 1].size = 0])
  /\ UNCHANGED <<parserVars, file, result, header, sec_size, short_sec_size,
                 minimum_standard_stream_size, msat, sat, ssat, dsat, body,
                 root_entry, loc, walk, stack>>

\* the client asks for the slice of entry i
GetEntrySlice ==
  /\ pc = "ready"
  /\ \E i \in 0..(Len(Get(entries)) - 1) :
       LET r == EntrySliceOf(Get(entries)[i + 1]) IN
       /\ slice' = IF r.res = Ok THEN Some(r.slice) ELSE NONE
       /\ last' = [op |-> "get_entry_slice", entry |-> i, res |-> r.res,
                   n |-> 0, buf |-> 0, pieces |-> <<>>]
       /\ pc' = IF IsPanic(r.res) THEN "aborted" ELSE pc
  /\ UNCHANGED <<parserVars, file, result, header, readerVars, loc, walk, stack>>

\* the buffer lengths the client reads with
BufLens(sl) ==
  {sl.total_size, sl.max_chunk_size, (3 * sl.max_chunk_size) \div 2}

\* the client reads from the slice it holds
ReadSlice ==
  /\ pc = "ready"
  /\ slice # NONE
  /\ \E buf_len \in BufLens(Get(slice)) :
       LET r == ReadSliceInto(Get(slice), buf_len) IN
       /\ slice' = Some(r.slice)
       /\ last' = [op |-> "read", entry |-> last.entry,
                   res |-> IF r.panic THEN Panic("range end out of bounds")
                           ELSE Ok,
                   n |-> r.n, buf |-> buf_len, pieces |-> r.pieces]
       /\ pc' = IF r.panic THEN "aborted" ELSE pc
  /\ UNCHANGED <<parserVars, file, result, header, readerVars, loc, walk, stack>>

-----------------------------------------------------------------------------
(* Strings.  A String is the sequence of its chars, a char the number of    *)
(* its code point; str.len() and the slices &str[a .. b] count the bytes of *)
(* the UTF-8 encoding.                                                       *)

\* "__recip_version1.0_"
RecipPrefix ==
  <<95, 95, 114, 101, 99, 105, 112, 95, 118, 101, 114, 115, 105, 111, 110,
  49, 46, 48, 95>>
\* "__attach_version1.0_"
AttachPrefix ==
  <<95, 95, 97, 116, 116, 97, 99, 104, 95, 118, 101, 114, 115, 105, 111,
  110, 49, 46, 48, 95>>
\* "__substg1.0"
StreamPrefix ==
  <<95, 95, 115, 117, 98, 115, 116, 103, 49, 46, 48>>
\* "0x"
HexPrefix ==
  <<48, 120>>
\* "0x001F"
PtypStringCode ==
  <<48, 120, 48, 48, 49, 70>>
\* "0x0102"
PtypBinaryCode ==
  <<48, 120, 48, 49, 48, 50>>
\* '#' and '_'
Hash == 35
Underscore == 95

\* str::starts_with
StartsWith(str, prefix) ==
  Len(str) >= Len(prefix) /\ SubSeq(str, 1, Len(prefix)) = prefix

\* str::split(sep).collect(): the fields between the separators
RECURSIVE Split(_, _)
Split(str, sep) ==
  IF \A i \in DOMAIN str : str[i] # sep THEN <<str>>
  ELSE LET i == CHOOSE k \in DOMAIN str :
                  str[k] = sep /\ \A j \in 1..(k - 1) : str[j] # sep
       IN <<SubSeq(str, 1, i - 1)>> \o Split(SubSeq(str, i + 1, Len(str)), sep)

\* the bytes of a String (chars up to U+07FF)
RECURSIVE Utf8(_)
Utf8(str) ==
  IF str = <<>> THEN <<>>
  ELSE (IF str[1] < 128 THEN <<str[1]>>
        ELSE <<192 + (str[1] \div 64), 128 + (str[1] % 64)>>)
       \o Utf8(Tail(str))

\* str::is_char_boundary on the bytes of a String
IsCharBoundary(bytes, i) ==
  \/ i = 0
  \/ i = Len(bytes)
  \/ i < Len(bytes) /\ ~(bytes[i + 1] >= 128 /\ bytes[i + 1] < 192)

\* the value of a hex digit, -1 for any other byte
HexVal(b) ==
  IF b >= 48 /\ b <= 57 THEN b - 48
  ELSE IF b >= 65 /\ b <= 70 THEN b - 55
  ELSE IF b >= 97 /\ b <= 102 THEN b - 87
  ELSE -1

\* hex::decode: None stands for its Err (odd length, invalid character)
HexDecode(str) ==
  LET b == Utf8(str) IN
  IF Len(b) % 2 # 0 \/ \E i \in DOMAIN b : HexVal(b[i]) = -1 THEN NONE
  ELSE Some([i \in 1..(Len(b) \div 2) |->
               16 * HexVal(b[2 * i - 1]) + HexVal(b[2 * i])])

\* hex::encode: two lower-case digits per byte
HexDigit(v) == IF v < 10 THEN 48 + v ELSE 87 + v
HexEncode(bytes) ==
  [i \in 1..(2 * Len(bytes)) |->
     IF i % 2 = 1 THEN HexDigit(bytes[(i + 1) \div 2] \div 16)
     ELSE HexDigit(bytes[i \div 2] % 16)]

-----------------------------------------------------------------------------
(* StorageType and EntryStorageMap (src/src/parser/storage.rs)              *)

Recipient(id) == [tag |-> "Recipient", id |-> id]
Attachment(id) == [tag |-> "Attachment", id |-> id]
RootEntry == [tag |-> "RootEntry", id |-> 0]

\* u32::MAX / 256
MaxDiv256 == 16777215

\* sum + num * base in u32, the sum kept as the signed reading of its 32
\* bits; base is at most 2^24 and sum below base, so nothing overflows
U32MulAdd(sum, num, base) ==
  IF base > MaxDiv256 /\ num >= 128 THEN sum + (num - 256) * base
  ELSE sum + num * base

\* [mutant] the bytes are taken from the first to the last
RECURSIVE ConvertLoop_M(_, _, _, _)
ConvertLoop_M(decoded, i, base, sum) ==
  IF i = 0 THEN sum
  ELSE LET sum1 == U32MulAdd(sum, decoded[Len(decoded) + 1 - i], base) IN
       IF base >= MaxDiv256 THEN sum1
       ELSE ConvertLoop_M(decoded, i - 1, base * 256, sum1)

\* the loop of convert_id_to_u32 over decoded[1 .. i], from the last byte
\* to the first
RECURSIVE ConvertLoop(_, _, _, _)
ConvertLoop(decoded, i, base, sum) ==
  IF i = 0 THEN sum
  ELSE LET sum1 == U32MulAdd(sum, decoded[i], base) IN
       IF base >= MaxDiv256 THEN sum1
       ELSE ConvertLoop(decoded, i - 1, base * 256, sum1)

\* StorageType::convert_id_to_u32
ConvertIdToU32(id) ==
  IF Len(Utf8(id)) # 8 THEN NONE
  ELSE LET decoded == HexDecode(id) IN
       IF decoded = NONE THEN NONE
       ELSE Some(ConvertLoop(Get(decoded), Len(Get(decoded)), 1, 0))

\* the outcome of a call that may abort: ok is FALSE for a panic, v is the
\* value returned
Returned(v) == [ok |-> TRUE, v |-> v]
Aborted(msg) == [ok |-> FALSE, v |-> msg]

\* name.split("#").collect::<Vec<&str>>()[1], then convert_id_to_u32(id)?
StorageOfId(name, kind) ==
  LET fields == Split(name, Hash) IN
  IF Len(fields) < 2 THEN Aborted("index out of bounds")
  ELSE LET n == ConvertIdToU32(fields[2]) IN
       IF n = NONE THEN Returned(NONE)
       ELSE Returned(Some([tag |-> kind, id |-> Get(n)]))

\* [mutant] the two prefixes give the same kind of storage
StorageTypeCreate_M(name) ==
  IF StartsWith(name, RecipPrefix) THEN StorageOfId(name, "Recipient")
  ELSE IF StartsWith(name, AttachPrefix) THEN StorageOfId(name, "Recipient")
  ELSE Returned(NONE)

\* StorageType::create
StorageTypeCreate(name) ==
  IF StartsWith(name, RecipPrefix) THEN StorageOfId(name, "Recipient")
  ELSE IF StartsWith(name, AttachPrefix) THEN StorageOfId(name, "Attachment")
  ELSE Returned(NONE)

\* a HashMap is the set of its (key, value) pairs
MapKeys(map) == { kv.k : kv \in map }
MapHas(map, k) == k \in MapKeys(map)
MapGet(map, k) == (CHOOSE kv \in map : kv.k = k).v
MapInsert(map, k, v) == { kv \in map : kv.k # k } \cup {[k |-> k, v |-> v]}

\* EntryStorageMap::new: the loop over parser.iterate() from entry i on
RECURSIVE StorageMapFrom(_, _, _)
StorageMapFrom(es, i, map) ==
  IF i > Len(es) THEN Returned(map)
  ELSE IF es[i].entry_type = RootStorage
  THEN StorageMapFrom(es, i + 1, MapInsert(map, es[i].id, RootEntry))
  ELSE IF es[i].entry_type = UserStorage
  THEN LET r == StorageTypeCreate(es[i].name) IN
       IF ~r.ok THEN r
       ELSE IF r.v = NONE THEN StorageMapFrom(es, i + 1, map)
       ELSE StorageMapFrom(es, i + 1, MapInsert(map, es[i].id, Get(r.v)))
  ELSE StorageMapFrom(es, i + 1, map)

EntryStorageMapNew(es) == StorageMapFrom(es, 1, {})

\* EntryStorageMap::get_storage_type
GetStorageType(map, parent_id) ==
  IF parent_id = NONE THEN NONE
  ELSE IF MapHas(map, Get(parent_id)) THEN Some(MapGet(map, Get(parent_id)))
  ELSE NONE

-----------------------------------------------------------------------------
(* DataType and PtypDecoder (src/src/parser/decode.rs)                      *)

PtypString(str) == [type |-> "PtypString", v |-> str]
PtypBinary(bytes) == [type |-> "PtypBinary", v |-> bytes]

UnknownCode(code) == [kind |-> "UnknownCode", v |-> code]
Utf16Err == [kind |-> "Utf16Err", v |-> <<>>]

Good(v) == [ok |-> TRUE, v |-> v]
Bad(e) == [ok |-> FALSE, v |-> e]

\* the loop of decode_ptypstring: the bytes taken two by two as
\* little-endian u16, a last single byte completed by 0
ToU16(buff) ==
  [i \in 1..((Len(buff) + 1) \div 2) |->
     buff[2 * i - 1] + 256 * (IF 2 * i <= Len(buff) THEN buff[2 * i] ELSE 0)]

IsHighSurrogate(u) == u >= 55296 /\ u <= 56319
IsLowSurrogate(u) == u >= 56320 /\ u <= 57343

\* String::from_utf16 from unit i on: the chars, or <<-1>> at the end of
\* what was decoded when a surrogate is unpaired
RECURSIVE FromUtf16At(_, _)
FromUtf16At(units, i) ==
  IF i > Len(units) THEN <<>>
  ELSE IF IsHighSurrogate(units[i])
  THEN IF i < Len(units) /\ IsLowSurrogate(units[i + 1])
       THEN <<65536 + (units[i] - 55296) * 1024 + (units[i + 1] - 56320)>>
            \o FromUtf16At(units, i + 2)
       ELSE <<-1>>
  ELSE IF IsLowSurrogate(units[i]) THEN <<-1>>
  ELSE <<units[i]>> \o FromUtf16At(units, i + 1)

\* decode_ptypstring
DecodePtypString(buff) ==
  LET decoded == FromUtf16At(ToU16(buff), 1) IN
  IF decoded # <<>> /\ decoded[Len(decoded)] = -1 THEN Bad(Utf16Err)
  ELSE Good(PtypString(decoded))

\* decode_ptypbinary
DecodePtypBinary(buff) == Good(PtypBinary(buff))

\* [mutant] a code that is not known is taken as binary
DecodeBuff_M(buff, code) ==
  IF code = PtypStringCode THEN DecodePtypString(buff)
  ELSE DecodePtypBinary(buff)

\* the match of PtypDecoder::decode on the bytes read into buff
DecodeBuff(buff, code) ==
  IF code = PtypStringCode THEN DecodePtypString(buff)
  ELSE IF code = PtypBinaryCode THEN DecodePtypBinary(buff)
  ELSE Bad(UnknownCode(code))

\* byte k (from 0) of the entry behind a slice
SliceByte(sl, k) ==
  LET c == sl.chunks[(k \div sl.max_chunk_size) + 1]
      off == c.start + (k % sl.max_chunk_size)
  IN ByteOf(BodyWord(Get(body).blk, c.sec * WordsPerSector + (off \div 4)),
            off % 4)

\* PtypDecoder::decode: a buffer of entry_slice.len() zeros, one read into
\* it, and the match on the code
PtypDecode(sl, code) ==
  LET r == ReadSliceInto(sl, sl.total_size)
      buff == [k \in 1..sl.total_size |->
                 IF k <= r.n THEN SliceByte(sl, k - 1) ELSE 0]
  IN
  IF r.panic THEN Aborted("range end out of bounds")
  ELSE Returned([buff |-> buff, code |-> code, res |-> DecodeBuff(buff, code)])

\* impl From<&DataType> for String
DataTypeToString(data) ==
  IF data.type = "PtypBinary" THEN HexEncode(data.v) ELSE data.v

-----------------------------------------------------------------------------
(* PropIdNameMap (src/src/parser/constants.rs) and Stream                   *)
(* (src/src/parser/stream.rs)                                               *)

\* "0x3001", "0x0C1F", "0x3703"
PropIds ==
  {[k |-> <<48, 120, 51, 48, 48, 49>>, v |-> "DisplayName"],
   [k |-> <<48, 120, 48, 67, 49, 70>>, v |-> "SenderEmailAddress"],
   [k |-> <<48, 120, 51, 55, 48, 51>>, v |-> "AttachExtension"]}

\* PropIdNameMap::get_canonical_name
GetCanonicalName(prop_id) ==
  IF MapHas(PropIds, prop_id) THEN Some(MapGet(PropIds, prop_id)) ELSE NONE

\* Stream::is_stream
IsStream(name) == StartsWith(name, StreamPrefix)

\* the fields of a split that are not empty
RECURSIVE NonEmpty(_)
NonEmpty(fields) ==
  IF fields = <<>> THEN <<>>
  ELSE (IF Len(fields[1]) > 0 THEN <<fields[1]>> ELSE <<>>)
       \o NonEmpty(Tail(fields))

\* Stream::extract_id_and_datatype: the second field of the name, its
\* first four and its last four bytes
ExtractIdAndDatatype(name) ==
  LET fields == NonEmpty(Split(name, Underscore)) IN
  IF Len(fields) < 2 THEN Aborted("index out of bounds")
  ELSE LET tag == Utf8(fields[2]) IN
       IF Len(tag) < 4 THEN Aborted("byte index 4 is out of bounds")
       ELSE IF ~IsCharBoundary(tag, 4)
                 \/ ~IsCharBoundary(tag, Len(tag) - 4)
       THEN Aborted("byte index is not a char boundary")
       ELSE Returned([prop_id |-> HexPrefix \o SubSeq(tag, 1, 4),
                      prop_datatype |->
                        HexPrefix \o SubSeq(tag, Len(tag) - 3, Len(tag))])

NewStream(parent, key, value) ==
  [parent |-> parent, key |-> key, value |-> value]

\* [mutant] a property id that is not in the table is kept under its own key
StreamCreate_M(name, sl, parent) ==
  IF ~IsStream(name) THEN Returned([stream |-> NONE, decoded |-> NONE])
  ELSE LET x == ExtractIdAndDatatype(name) IN
       IF ~x.ok THEN x
       ELSE LET found == GetCanonicalName(x.v.prop_id)
                key == IF found = NONE THEN Some("Unknown") ELSE found
                value_res == PtypDecode(sl, x.v.prop_datatype)
            IN
            IF ~value_res.ok THEN value_res
            ELSE IF ~value_res.v.res.ok
            THEN Returned([stream |-> NONE, decoded |-> Some(value_res.v)])
            ELSE Returned([stream |->
                             Some(NewStream(parent, Get(key),
                                            value_res.v.res.v)),
                           decoded |-> Some(value_res.v)])

\* Stream::create: Returned(None), Returned(Some(stream)) or an abort;
\* `decoded` keeps what PtypDecoder::decode was given and returned
StreamCreate(name, sl, parent) ==
  IF ~IsStream(name) THEN Returned([stream |-> NONE, decoded |-> NONE])
  ELSE LET x == ExtractIdAndDatatype(name) IN
       IF ~x.ok THEN x
       ELSE LET key == GetCanonicalName(x.v.prop_id) IN
            IF key = NONE THEN Returned([stream |-> NONE, decoded |-> NONE])
            ELSE LET value_res == PtypDecode(sl, x.v.prop_datatype) IN
                 IF ~value_res.ok THEN value_res
                 ELSE IF ~value_res.v.res.ok
                 THEN Returned([stream |-> NONE,
                                decoded |-> Some(value_res.v)])
                 ELSE Returned([stream |->
                                  Some(NewStream(parent, Get(key),
                                                 value_res.v.res.v)),
                                decoded |-> Some(value_res.v)])

-----------------------------------------------------------------------------
(* Storages (src/src/parser/storage.rs) and Outlook                         *)
(* (src/src/parser/outlook.rs)                                              *)

\* the keys of a HashMap<u32, _> in ascending order
RECURSIVE SortedKeys(_)
SortedKeys(keys) ==
  IF keys = {} THEN <<>>
  ELSE LET least == CHOOSE k \in keys : \A j \in keys : j = k \/ U32Lt(k, j)
       IN <<least>> \o SortedKeys(keys \ {least})

\* Storages::to_arr
ToArr(map) ==
  LET keys == SortedKeys(MapKeys(map)) IN
  [i \in 1..Len(keys) |-> MapGet(map, keys[i])]

\* Storages::new, given the EntryStorageMap; recipients_map, attachments_map
\* and curr are the locals of process_streams and the place of its iterator
NewStorages(storage_map) ==
  [storage_map |-> storage_map, root |-> {}, recipients |-> <<>>,
   attachments |-> <<>>, recipients_map |-> {}, attachments_map |-> {},
   curr |-> 0]

\* [mutant] a stream whose parent has no type is taken as one of the root
CreateStream_M(st, entry) ==
  LET found == GetStorageType(st.storage_map, entry.parent_node)
      parent == IF found = NONE THEN Some(RootEntry) ELSE found
      sr == EntrySliceOf(entry)
  IN
  IF IsPanic(sr.res) THEN Aborted(sr.res.msg)
  ELSE IF sr.res # Ok
  THEN Returned([called |-> FALSE, stream |-> NONE, decoded |-> NONE])
  ELSE LET c == StreamCreate(entry.name, sr.slice, Get(parent)) IN
       IF ~c.ok THEN c
       ELSE Returned([called |-> TRUE, stream |-> c.v.stream,
                      decoded |-> c.v.decoded])

\* Storages::create_stream: `called` tells whether Stream::create was
\* reached
CreateStream(st, entry) ==
  LET parent == GetStorageType(st.storage_map, entry.parent_node) IN
  IF parent = NONE
  THEN Returned([called |-> FALSE, stream |-> NONE, decoded |-> NONE])
  ELSE LET sr == EntrySliceOf(entry) IN
       IF IsPanic(sr.res) THEN Aborted(sr.res.msg)
       ELSE IF sr.res # Ok
       THEN Returned([called |-> FALSE, stream |-> NONE, decoded |-> NONE])
       ELSE LET c == StreamCreate(entry.name, sr.slice, Get(parent)) IN
            IF ~c.ok THEN c
            ELSE Returned([called |-> TRUE, stream |-> c.v.stream,
                           decoded |-> c.v.decoded])

\* map.entry(id).or_insert(HashMap::new()).insert(key, value)
InsertInto(map, id, key, value) ==
  MapInsert(map, id,
            MapInsert(IF MapHas(map, id) THEN MapGet(map, id) ELSE {},
                      key, value))

\* [mutant] the bucket of a recipient or an attachment is that of the place
\* in the directory, not that of the index
Populated_M(st, stream) ==
  IF stream.parent.tag = "RootEntry"
  THEN [st EXCEPT !.root = MapInsert(st.root, stream.key, stream.value)]
  ELSE IF stream.parent.tag = "Recipient"
  THEN [st EXCEPT !.recipients_map =
                     InsertInto(st.recipients_map, st.curr,
                                stream.key, stream.value)]
  ELSE [st EXCEPT !.attachments_map =
                     InsertInto(st.attachments_map, st.curr,
                                stream.key, stream.value)]

\* the match of process_streams on stream.parent
Populated(st, stream) ==
  IF stream.parent.tag = "RootEntry"
  THEN [st EXCEPT !.root = MapInsert(st.root, stream.key, stream.value)]
  ELSE IF stream.parent.tag = "Recipient"
  THEN [st EXCEPT !.recipients_map =
                     InsertInto(st.recipients_map, stream.parent.id,
                                stream.key, stream.value)]
  ELSE [st EXCEPT !.attachments_map =
                     InsertInto(st.attachments_map, stream.parent.id,
                                stream.key, stream.value)]

\* Storages::get_val_from_root_or_default
GetValFromRootOrDefault(st, key) ==
  IF MapHas(st.root, key) THEN DataTypeToString(MapGet(st.root, key))
  ELSE <<>>

\* Storages::get_val_from_attachment_or_default
GetValFromAttachmentOrDefault(st, idx, key) ==
  IF idx >= Len(st.attachments) THEN <<>>
  ELSE IF MapHas(st.attachments[idx + 1], key)
  THEN DataTypeToString(MapGet(st.attachments[idx + 1], key))
  ELSE <<>>

\* [mutant] a key that is absent gives "?"
PropOrEmpty_M(props, key) ==
  IF MapHas(props, key) THEN DataTypeToString(MapGet(props, key)) ELSE <<63>>

\* props.get(key).map_or(String::new(), |x| x.into())
PropOrEmpty(props, key) ==
  IF MapHas(props, key) THEN DataTypeToString(MapGet(props, key)) ELSE <<>>

\* [mutant] the first of the keys that is present decides, empty or not
RECURSIVE FirstEmail_M(_, _)
FirstEmail_M(props, email_keys) ==
  IF email_keys = <<>> THEN <<>>
  ELSE IF MapHas(props, email_keys[1])
  THEN PropOrEmpty(props, email_keys[1])
  ELSE FirstEmail_M(props, Tail(email_keys))

\* the first email of the keys that is not empty, or ""
RECURSIVE FirstEmail(_, _)
FirstEmail(props, email_keys) ==
  IF email_keys = <<>> THEN <<>>
  ELSE IF Len(PropOrEmpty(props, email_keys[1])) > 0
  THEN PropOrEmpty(props, email_keys[1])
  ELSE FirstEmail(props, Tail(email_keys))

\* Person::create_from_props
PersonCreateFromProps(props, name_key, email_keys) ==
  [name |-> PropOrEmpty(props, name_key),
   email |-> FirstEmail(props, email_keys)]

\* Attachment::create
AttachmentCreate(st, idx) ==
  [display_name |-> GetValFromAttachmentOrDefault(st, idx, "DisplayName"),
   payload |-> GetValFromAttachmentOrDefault(st, idx, "AttachDataObject"),
   extension |-> GetValFromAttachmentOrDefault(st, idx, "AttachExtension"),
   mime_tag |-> GetValFromAttachmentOrDefault(st, idx, "AttachMimeTag"),
   file_name |-> GetValFromAttachmentOrDefault(st, idx, "AttachFilename")]

\* Outlook::populate.  The fields headers and cc are what the regular
\* expressions of TransportHeaders and extract_cc_from_headers find in
\* headers_text; the record keeps the text they are computed from.
OutlookPopulate(st) ==
  [headers_text |-> GetValFromRootOrDefault(st, "TransportMessageHeaders"),
   sender |-> PersonCreateFromProps(st.root, "SenderName",
                                    <<"SenderSmtpAddress",
                                      "SenderEmailAddress">>),
   to |-> [i \in DOMAIN st.recipients |->
             PersonCreateFromProps(st.recipients[i], "DisplayName",
                                   <<"SmtpAddress", "EmailAddress">>)],
   bcc |-> GetValFromRootOrDefault(st, "DisplayBcc"),
   subject |-> GetValFromRootOrDefault(st, "Subject"),
   body |-> GetValFromRootOrDefault(st, "Body"),
   rtf_compressed |-> GetValFromRootOrDefault(st, "RtfCompressed"),
   attachments |-> [i \in DOMAIN st.attachments |->
                      AttachmentCreate(st, i - 1)]]

\* what from_slice / from_path has returned: a record, or the abort of the
\* thread
Parsed(record) == [res |-> Ok, record |-> record]
ParseAborted(msg) == [res |-> Panic(msg), record |-> <<>>]

\* Outlook::from_slice after Reader::new returned Ok: Storages::new
StoragesNew ==
  /\ pc = "ready" /\ slice = NONE /\ last = NoLast
  /\ LET r == EntryStorageMapNew(Get(entries)) IN
     IF r.ok
     THEN /\ storages' = Some(NewStorages(r.v))
          /\ pc' = "process_streams"
          /\ UNCHANGED outlook
     ELSE /\ outlook' = Some(ParseAborted(r.v))
          /\ pc' = "aborted"
          /\ UNCHANGED storages
  /\ call' = [fn |-> "Storages::new", arg |-> <<>>, ret |-> <<>>]
  /\ UNCHANGED <<file, result, header, readerVars, loc, walk, stack, slice,
                 last>>

\* one iteration of the loop of process_streams
ProcessStream ==
  /\ pc = "process_streams"
  /\ Get(storages).curr < Len(Get(entries))
  /\ LET st == Get(storages)
         entry == Get(entries)[st.curr + 1]
         st1 == [st EXCEPT !.curr = st.curr + 1]
     IN
     IF entry.entry_type # UserStream
     THEN /\ storages' = Some(st1)
          /\ call' = [fn |-> "skip", arg |-> <<entry.id>>, ret |-> <<>>]
          /\ UNCHANGED <<pc, outlook>>
     ELSE LET r == CreateStream(st, entry) IN
          /\ call' = [fn |-> "create_stream", arg |-> <<entry.id>>,
                      ret |-> <<r>>]
          /\ IF ~r.ok
             THEN /\ outlook' = Some(ParseAborted(r.v))
                  /\ pc' = "aborted"
                  /\ UNCHANGED storages
             ELSE /\ storages' = IF r.v.stream = NONE THEN Some(st1)
                                 ELSE Some(Populated(st1, Get(r.v.stream)))
                  /\ UNCHANGED <<pc, outlook>>
  /\ UNCHANGED <<file, result, header, readerVars, loc, walk, stack, slice,
                 last>>

\* the end of process_streams, then Outlook::populate: from_slice returns
ProcessDone ==
  /\ pc = "process_streams"
  /\ Get(storages).curr = Len(Get(entries))
  /\ LET st == [Get(storages) EXCEPT
                  !.recipients = ToArr(Get(storages).recipients_map),
                  !.attachments = ToArr(Get(storages).attachments_map)]
     IN /\ storages' = Some(st)
        /\ outlook' = Some(Parsed(OutlookPopulate(st)))
  /\ pc' = "done"
  /\ call' = [fn |-> "populate", arg |-> <<>>, ret |-> <<>>]
  /\ UNCHANGED <<file, result, header, readerVars, loc, walk, stack, slice,
                 last>>

\* the keys and the indices the accessors are asked for
AskedKeys == {"DisplayName", "SenderEmailAddress", "AttachExtension",
              "Subject"}
AskedIdx == 0..2

\* a call of one of the accessors of the Storages
Accessor ==
  /\ pc = "done"
  /\ \E key \in AskedKeys :
       \/ call' = [fn |-> "get_val_from_root_or_default", arg |-> <<key>>,
                   ret |-> <<GetValFromRootOrDefault(Get(storages), key)>>]
       \/ \E idx \in AskedIdx :
            call' = [fn |-> "get_val_from_attachment_or_default",
                     arg |-> <<idx, key>>,
                     ret |-> <<GetValFromAttachmentOrDefault(Get(storages),
                                                             idx, key)>>]
  /\ UNCHANGED <<file, pc, result, header, readerVars, loc, walk, stack,
                 slice, last, storages, outlook>>

-----------------------------------------------------------------------------
(* Calls of the parser's functions on their own                             *)

\* ids: the strings of eight of the chars '0', 'F', 'a', and
\*   "0000000A", "00000101", "7FFFFFFF", "80000000", "deadBEEF", "12345678",
\*   "HELLO", "00000000000000", "", "0000000", "000000000", "0000000G",
\*   "0x000001", "+0000001", " 0000001", "é000000", "000000é", "0000000é"
IdStrings ==
  [1..8 -> {48, 70, 97}]
  \cup {<<48, 48, 48, 48, 48, 48, 48, 65>>, <<48, 48, 48, 48, 48, 49, 48, 49>>,
        <<55, 70, 70, 70, 70, 70, 70, 70>>, <<56, 48, 48, 48, 48, 48, 48, 48>>,
        <<100, 101, 97, 100, 66, 69, 69, 70>>,
        <<49, 50, 51, 52, 53, 54, 55, 56>>,
        <<72, 69, 76, 76, 79>>,
        <<48, 48, 48, 48, 48, 48, 48, 48, 48, 48, 48, 48, 48, 48>>,
        <<>>, <<48, 48, 48, 48, 48, 48, 48>>,
        <<48, 48, 48, 48, 48, 48, 48, 48, 48>>,
        <<48, 48, 48, 48, 48, 48, 48, 71>>,
        <<48, 120, 48, 48, 48, 48, 48, 49>>,
        <<43, 48, 48, 48, 48, 48, 48, 49>>,
        <<32, 48, 48, 48, 48, 48, 48, 49>>,
        <<233, 48, 48, 48, 48, 48, 48>>, <<48, 48, 48, 48, 48, 48, 233>>,
        <<48, 48, 48, 48, 48, 48, 48, 233>>}

\* texts: the strings of at most MaxText of the chars 'A', U+00E9, U+0301,
\* U+1F600 and U+0000
MaxText == 3
TextChars == {65, 233, 769, 128512, 0}
TextStrings == UNION { [1..n -> TextChars] : n \in 0..MaxText }

IdArg(str) == [kind |-> "id", v |-> str]
TextArg(str) == [kind |-> "text", v |-> str]

\* the UTF-16LE bytes of a string
RECURSIVE EncodeUtf16le(_)
EncodeUtf16le(str) ==
  IF str = <<>> THEN <<>>
  ELSE (IF str[1] < 65536
        THEN <<str[1] % 256, str[1] \div 256>>
        ELSE LET hi == 55296 + ((str[1] - 65536) \div 1024)
                 lo == 56320 + ((str[1] - 65536) % 1024)
             IN <<hi % 256, hi \div 256, lo % 256, lo \div 256>>)
       \o EncodeUtf16le(Tail(str))

\* the buckets Outlook::populate is called with: a name that is absent or
\* "N", and under each of the two email keys nothing, "", the empty
\* binary, or a text of its own ("1" for the first key, "2" for the second)
EmailValues(text) ==
  {NONE, Some(PtypString(<<>>)), Some(PtypBinary(<<>>)),
   Some(PtypString(<<text>>))}

BucketOf(name_key, name, key1, v1, key2, v2) ==
  (IF name = NONE THEN {} ELSE {[k |-> name_key, v |-> Get(name)]})
  \cup (IF v1 = NONE THEN {} ELSE {[k |-> key1, v |-> Get(v1)]})
  \cup (IF v2 = NONE THEN {} ELSE {[k |-> key2, v |-> Get(v2)]})

Buckets3(name_key, key1, key2) ==
  { BucketOf(name_key, name, key1, v1, key2, v2) :
      name \in {NONE, Some(PtypString(<<78>>))},
      v1 \in EmailValues(49), v2 \in EmailValues(50) }

RootBuckets == Buckets3("SenderName", "SenderSmtpAddress", "SenderEmailAddress")
RecipientBuckets == Buckets3("DisplayName", "SmtpAddress", "EmailAddress")

BucketsArg(root, recipient) ==
  [kind |-> "buckets",
   v |-> [NewStorages({}) EXCEPT !.root = root,
                                 !.recipients = <<recipient>>]]

PureInit ==
  /\ file = File(FullLen, GoodHdr, BodyOf(GoodParams))
  /\ pc = "call"
  /\ result = Running
  /\ header = NONE
  /\ sec_size = NONE
  /\ short_sec_size = NONE
  /\ minimum_standard_stream_size = NONE
  /\ msat = NONE
  /\ sat = NONE
  /\ ssat = NONE
  /\ dsat = NONE
  /\ body = NONE
  /\ entries = NONE
  /\ root_entry = NONE
  /\ loc = NoLoc
  /\ walk = NoWalk
  /\ stack = <<>>
  /\ slice = NONE
  /\ last = NoLast
  /\ storages = NONE
  /\ outlook = NONE
  /\ \/ call \in { [fn |-> "", arg |-> IdArg(str), ret |-> <<>>] :
                     str \in IdStrings }
               \cup { [fn |-> "", arg |-> TextArg(str), ret |-> <<>>] :
                        str \in TextStrings }
     \/ call \in { [fn |-> "", arg |-> BucketsArg(root, recipient),
                    ret |-> <<>>] :
                     root \in RootBuckets, recipient \in RecipientBuckets }

\* StorageType::convert_id_to_u32(id)
CallConvertIdToU32 ==
  /\ pc = "call" /\ call.fn = "" /\ call.arg.kind = "id"
  /\ call' = [call EXCEPT !.fn = "convert_id_to_u32",
                          !.ret = ConvertIdToU32(call.arg.v)]
  /\ UNCHANGED <<file, pc, result, header, readerVars, loc, walk, stack,
                 slice, last, storages, outlook>>

\* decode_ptypstring on the UTF-16LE bytes of a text followed by 00 00
CallDecodePtypString ==
  /\ pc = "call" /\ call.fn = "" /\ call.arg.kind = "text"
  /\ call' = [call EXCEPT
                !.fn = "decode_ptypstring",
                !.ret = DecodePtypString(EncodeUtf16le(call.arg.v)
                                         \o <<0, 0>>)]
  /\ UNCHANGED <<file, pc, result, header, readerVars, loc, walk, stack,
                 slice, last, storages, outlook>>

\* Outlook::populate on the Storages of the argument
CallPopulate ==
  /\ pc = "call" /\ call.fn = "" /\ call.arg.kind = "buckets"
  /\ call' = [call EXCEPT !.fn = "populate",
                          !.ret = OutlookPopulate(call.arg.v)]
  /\ UNCHANGED <<file, pc, result, header, readerVars, loc, walk, stack,
                 slice, last, storages, outlook>>

PureNext ==
  \/ CallConvertIdToU32
  \/ CallDecodePtypString
  \/ CallPopulate

PureSpec == PureInit /\ [][PureNext]_vars

-----------------------------------------------------------------------------

Next ==
  \/ ReadHeader
  \/ CheckMagic
  \/ CheckEndian
  \/ CheckSecSize
  \/ CheckShortSecSize
  \/ CheckMinSize
  \/ SeedTables
  \/ ReadHeaderSecIds
  \/ MsatChainStep
  \/ MsatChainEnd
  \/ MsatFinish
  \/ BuildSatStep
  \/ WalkStep
  \/ BuildSsatStart
  \/ BuildSsatWalked
  \/ BuildSsatRead
  \/ BuildDsatWalked
  \/ ReadDirSector
  \/ ResolveEntry
  \/ ResolveWalked
  \/ TreeStep
  \/ TreeDone
  \/ GetEntrySlice
  \/ ReadSlice
  \/ StoragesNew
  \/ ProcessStream
  \/ ProcessDone
  \/ Accessor

Spec == Init /\ [][Next]_vars

-----------------------------------------------------------------------------
(* Properties of the header checks                                          *)

Finished == result # Running

\* the message of the error Outlook::from_slice / from_path returns
\* contains the text t
MessageContains(e, t) ==
  \E i \in DOMAIN OutlookErrorDisplay(e) : OutlookErrorDisplay(e)[i] = t

HeaderPcs == {"read_header", "check_magic", "check_endian", "sec_size",
              "short_sec_size", "min_size"}

BadMagic == file.hdr.magic # IDENTIFIER
FullHeader == file.len >= HEADER_SIZE
Marker == file.hdr.endian
SecExp == FromSlice(file.hdr.k)
ShortExp == FromSlice(file.hdr.k2)
MinSize == FromSlice(file.hdr.min)

\* C1, as stated: whenever the first 8 bytes of the input are not the OLE
\* magic, Reader::new fails with InvalidOLEFile, and the message of the
\* error contains "Invalid OLE File".
C1_Original ==
  (file.len >= Len(IDENTIFIER) /\ BadMagic /\ Finished)
    => /\ result = InvalidOLEFile
       /\ MessageContains(result, "Invalid OLE File")

\* C1, amended: whenever the input holds the 512 bytes of a header and its
\* first 8 bytes are not the OLE magic, Reader::new goes no further than
\* the magic check and fails there with InvalidOLEFile, whose message
\* contains "Invalid OLE File".
C1_BadMagic ==
  (FullHeader /\ BadMagic)
    => /\ pc \in {"read_header", "check_magic"}
       /\ Finished => /\ result = InvalidOLEFile
                      /\ pc = "check_magic"
                      /\ MessageContains(result, "Invalid OLE File")

C1_Witness ==
  /\ FullHeader /\ BadMagic /\ pc = "check_magic"
  /\ result = InvalidOLEFile

\* C2: with a full header and the right magic, the marker FF FE ends
\* construction with NotImplementedYet, any marker other than FF FE and
\* FE FF ends it with InvalidOLEFile, and FE FF passes the check.
C2_Endianness ==
  (FullHeader /\ ~BadMagic)
    => /\ Marker = BIG_ENDIAN_IDENTIFIER
            => /\ pc \in {"read_header", "check_magic", "check_endian"}
               /\ Finished => result = NotImplementedYet
       /\ Marker \notin {BIG_ENDIAN_IDENTIFIER, LITTLE_ENDIAN_IDENTIFIER}
            => /\ pc \in {"read_header", "check_magic", "check_endian"}
               /\ Finished => result = InvalidOLEFile
       /\ Marker = LITTLE_ENDIAN_IDENTIFIER
            => ~(pc \in {"read_header", "check_magic", "check_endian"}
                 /\ Finished)

C2_Witness ==
  /\ FullHeader /\ ~BadMagic /\ pc = "check_endian"
  /\ Marker = <<254, 254>> /\ result = InvalidOLEFile

\* C3: with a full header, the right magic and the little-endian marker, a
\* sector-size or short-sector-size exponent >= 16 ends construction with
\* BadSizeValue at that check, and an exponent k < 16 sets the size to 2^k.
C3_SizeExponents ==
  (FullHeader /\ ~BadMagic /\ Marker = LITTLE_ENDIAN_IDENTIFIER)
    => /\ SecExp >= 16
            => /\ pc \in {"read_header", "check_magic", "check_endian",
                          "sec_size"}
               /\ sec_size = NONE
               /\ Finished => result.kind = "BadSizeValue"
       /\ SecExp < 16
            => /\ sec_size # NONE => Get(sec_size) = 2 ^ SecExp
               /\ pc \notin {"read_header", "check_magic", "check_endian",
                             "sec_size"} => sec_size # NONE
       /\ (SecExp < 16 /\ ShortExp >= 16)
            => /\ pc \in {"read_header", "check_magic", "check_endian",
                          "sec_size", "short_sec_size"}
               /\ short_sec_size = NONE
               /\ Finished => result.kind = "BadSizeValue"
       /\ (SecExp < 16 /\ ShortExp < 16)
            => /\ short_sec_size # NONE
                    => Get(short_sec_size) = 2 ^ ShortExp
               /\ pc \notin {"read_header", "check_magic", "check_endian",
                             "sec_size", "short_sec_size"}
                    => short_sec_size # NONE

C3_Witness ==
  /\ FullHeader /\ ~BadMagic /\ Marker = LITTLE_ENDIAN_IDENTIFIER
  /\ SecExp < 16 /\ sec_size = Some(128)
  /\ ShortExp >= 16 /\ pc = "short_sec_size"
  /\ result.kind = "BadSizeValue"

ValidUpToSizes ==
  /\ FullHeader /\ ~BadMagic /\ Marker = LITTLE_ENDIAN_IDENTIFIER
  /\ SecExp < 16 /\ ShortExp < 16

\* C4: with a header valid in every other field, a minimum standard stream
\* size below 4096 ends construction with InvalidOLEFile at that check, and
\* every Reader that was constructed has a minimum standard stream size of
\* at least 4096.
C4_MinStreamSize ==
  /\ (ValidUpToSizes /\ MinSize < 4096)
       => /\ pc \in HeaderPcs
          /\ Finished => (result = InvalidOLEFile /\ pc = "min_size")
  /\ result = Ok
       => /\ minimum_standard_stream_size # NONE
          /\ Get(minimum_standard_stream_size) >= 4096

C4_Witness ==
  /\ ValidUpToSizes /\ MinSize = 4095
  /\ pc = "min_size" /\ result = InvalidOLEFile

\* C5, as stated: a minimum standard stream size below 4096 is reported as
\* BadSizeValue, the error kind of a sector-size exponent >= 16.
C5_Original ==
  (pc = "min_size" /\ Finished) => result.kind = "BadSizeValue"

\* C5, amended: a minimum standard stream size below 4096 is reported as
\* InvalidOLEFile, the error kind of a bad magic or endianness marker; the
\* header checks report BadSizeValue only for a size exponent >= 16.
C5_CutoffErrorKind ==
  /\ (pc = "min_size" /\ Finished)
       => /\ result.kind = "InvalidOLEFile"
          /\ OleDisplay(result) = "Invalid OLE File"
  /\ (pc \in HeaderPcs /\ result.kind = "BadSizeValue")
       => /\ pc \in {"sec_size", "short_sec_size"}
          /\ SecExp >= 16 \/ ShortExp >= 16

C5_Witness ==
  /\ pc = "min_size" /\ MinSize < 4096 /\ Finished
  /\ OleDisplay(result) = "Invalid OLE File"

\* C6: an input shorter than the 512-byte header ends construction with
\* the I/O error "failed to fill whole buffer" before the magic is looked
\* at, and Outlook::from_path reports it as "Error parsing file with ole:
\* failed to fill whole buffer"; so does an input that ends before a
\* sector the MSAT continuation chain asks for.
C6_ShortInput ==
  /\ ~FullHeader
       => /\ pc = "read_header" /\ header = NONE
          /\ Finished
               => /\ result = IOError("failed to fill whole buffer")
                  /\ OutlookErrorDisplay(result) =
                       <<"Error parsing file with ole: ",
                         "failed to fill whole buffer">>
  /\ (pc = "msat_chain" /\ Finished /\ loc.sec_id >= 0
      /\ file.len - HEADER_SIZE < (loc.sec_id + 1) * Get(sec_size))
       => /\ result = IOError("failed to fill whole buffer")
          /\ OutlookErrorDisplay(result) =
               <<"Error parsing file with ole: ",
                 "failed to fill whole buffer">>
  /\ pc = "msat_chain" => loc.buffer_len <= file.len - HEADER_SIZE

C6_Witness ==
  /\ ~FullHeader /\ file.len > 0 /\ BadMagic
  /\ result = IOError("failed to fill whole buffer")

-----------------------------------------------------------------------------
(* Properties of the chains and of the slices                               *)

EntryAt(i) == Get(entries)[i + 1]

\* the bytes of one chunk of a slice of e
ChunkSizeOf(e) ==
  IF e.size < Get(minimum_standard_stream_size)
  THEN Get(short_sec_size) ELSE Get(sec_size)

\* the client has read a fresh slice of entry last.entry, a UserStream of
\* size > 0, into a buffer of size bytes
FreshFullRead ==
  /\ pc \in {"ready", "aborted"}
  /\ last.op = "read"
  /\ EntryAt(last.entry).entry_type = UserStream
  /\ EntryAt(last.entry).size > 0
  /\ last.buf = EntryAt(last.entry).size
  /\ slice # NONE
  /\ Get(slice).read = last.n

\* C7, as stated: reading the slice of a UserStream of size > 0 into a
\* buffer of size bytes yields size bytes, and real_len() = len() = size.
C7_Original ==
  FreshFullRead
    => /\ last.n = EntryAt(last.entry).size
       /\ Get(slice).real_size = EntryAt(last.entry).size
       /\ Get(slice).total_size = EntryAt(last.entry).size

\* C7, amended: len() is the size of the entry, real_len() is the smaller
\* of size and |sec_id_chain| * chunk size, and the read yields real_len()
\* bytes; so the three are equal exactly for the entries whose chain holds
\* at least size / chunk size (rounded up) sectors.
C7_SliceLength ==
  FreshFullRead
    => LET e == EntryAt(last.entry)
           held == Len(e.sec_id_chain) * ChunkSizeOf(e)
       IN
       /\ last.res = Ok
       /\ Get(slice).total_size = e.size
       /\ Get(slice).real_size = Min(e.size, held)
       /\ last.n = Min(e.size, held)
       /\ held >= e.size
            => /\ last.n = e.size
               /\ Get(slice).real_size = Get(slice).total_size

C7_Witness ==
  /\ FreshFullRead
  /\ EntryAt(last.entry).size = 4096
  /\ Len(EntryAt(last.entry).sec_id_chain) = 32
  /\ Len(Get(slice).chunks) = 32
  /\ last.n = 4096

\* the start SECID of entry i, as its directory sector holds it
StartSecId(i) ==
  BodyWord(Get(body).blk,
           Get(dsat)[(i \div NEntryBySector) + 1] * WordsPerSector
             + (i % NEntryBySector) * BlockWords + 29)

\* the SECIDs from cur up to the first terminator of the table
RECURSIVE ChainIn(_, _, _, _)
ChainIn(table, cur, terminators, fuel) ==
  IF cur \in terminators \/ fuel = 0 \/ ~InRange(cur, Len(table))
  THEN <<>>
  ELSE <<cur>> \o ChainIn(table, table[cur + 1], terminators, fuel - 1)

HasRepeat(chain) ==
  \E i, j \in DOMAIN chain : i # j /\ chain[i] = chain[j]

\* C9: a chain walk takes no more steps than the table it walks has
\* entries, and a chain that comes back to a sector it holds already is
\* not followed: the walk ends with an error.
C9_BoundedWalk ==
  pc \in WalkPcs
    => /\ Len(walk.chain) <= Len(TableOf(walk))
       /\ HasRepeat(walk.chain) => IsErr(result)

\* the MSAT continuation chain of the file is followed and comes back to
\* a sector it went through
HeaderMsatFull == \A i \in DOMAIN file.hdr.msat :
                     file.hdr.msat[i] # FREE_SECID_U32

RECURSIVE ContinuationLoops(_, _)
ContinuationLoops(s, seen) ==
  LET w == Pow(2, SecExp) \div 4 IN
  IF s < 0 \/ file.len - HEADER_SIZE < (s + 1) * Pow(2, SecExp) THEN FALSE
  ELSE IF s \in seen THEN TRUE
  ELSE ContinuationLoops(BodyWord(file.blk, s * w + w - 1), seen \cup {s})

MsatChainLoops ==
  /\ ValidUpToSizes /\ MinSize >= 4096 /\ SecExp >= 2
  /\ HeaderMsatFull
  /\ ContinuationLoops(file.hdr.msat_next, {})

\* C10: while the MSAT continuation chain is followed the number of SECIDs
\* collected is at most |body| / sec_size, and a chain that comes back to a
\* sector it went through ends construction with InvalidOLEFile.
C10_MsatChain ==
  /\ pc = "msat_chain"
       => loc.total <= (file.len - HEADER_SIZE) \div Get(sec_size)
  /\ (MsatChainLoops /\ Finished) => result = InvalidOLEFile

-----------------------------------------------------------------------------
(* Properties of the directory tree                                         *)

Ids == 0..(Len(Get(entries)) - 1)

Elems(seq) == { seq[j] : j \in DOMAIN seq }

\* the ids one step of links away from the ids of R: the child of a
\* storage, the left and the right sibling
LinkStep(R) ==
  R \cup { x \in Ids :
             \E i \in R :
               \/ /\ EntryAt(i).entry_type \in {RootStorage, UserStorage}
                  /\ EntryAt(i).root_node = x
               \/ EntryAt(i).left_child_node = x
               \/ EntryAt(i).right_child_node = x }

RECURSIVE LinkClosure(_, _)
LinkClosure(R, fuel) ==
  IF fuel = 0 THEN R ELSE LinkClosure(LinkStep(R), fuel - 1)

\* the entries some path of links leads to from the root
Linked == LinkClosure({0}, Len(Get(entries)))

\* C11, as stated: after construction every entry other than the root has
\* a parent whose children hold it, and the root has none.
C11_Original ==
  result = Ok
    => \A i \in Ids :
         IF i = 0 THEN EntryAt(i).parent_node = NONE
         ELSE /\ EntryAt(i).parent_node # NONE
              /\ InRange(Get(EntryAt(i).parent_node), Len(Get(entries)))
              /\ i \in Elems(EntryAt(Get(EntryAt(i).parent_node))
                               .children_nodes)

\* C11, amended: after construction the root has no parent; an entry whose
\* parent is Some(p) is held by the children of p, and p is a storage; an
\* entry no path of links leads to from the root has no parent and is in
\* no list of children.
C11_ParentLinks ==
  result = Ok
    => /\ EntryAt(0).parent_node = NONE
       /\ \A i \in Ids :
            /\ EntryAt(i).parent_node # NONE
                 => LET p == Get(EntryAt(i).parent_node) IN
                    /\ InRange(p, Len(Get(entries)))
                    /\ EntryAt(p).entry_type \in {RootStorage, UserStorage}
                    /\ i \in Elems(EntryAt(p).children_nodes)
            /\ i \notin Linked
                 => /\ EntryAt(i).parent_node = NONE
                    /\ \A p \in Ids : i \notin Elems(EntryAt(p).children_nodes)

C11_Witness ==
  /\ result = Ok
  /\ EntryAt(1).parent_node = Some(0)
  /\ 1 \in Elems(EntryAt(0).children_nodes)
  /\ 2 \notin Linked
  /\ EntryAt(2).parent_node = NONE

\* C20: get_entry_slice returns EmptyEntry exactly for the entries of size
\* 0, whatever their type and chain.
C20_EmptyEntry ==
  (pc \in {"ready", "aborted"} /\ last.op = "get_entry_slice")
    => (last.res = EmptyEntry <=> EntryAt(last.entry).size = 0)

C20_Witness ==
  /\ pc = "ready" /\ last.op = "get_entry_slice"
  /\ EntryAt(last.entry).size = 0
  /\ EntryAt(last.entry).entry_type = UserStorage
  /\ last.res = EmptyEntry

-----------------------------------------------------------------------------
(* Properties of the storages and of the decoders                           *)

IsHexDigit(c) ==
  (c >= 48 /\ c <= 57) \/ (c >= 65 /\ c <= 70) \/ (c >= 97 /\ c <= 102)

DigitValue(c) ==
  IF c <= 57 THEN c - 48 ELSE IF c <= 70 THEN c - 65 + 10 ELSE c - 97 + 10

\* eight hex digits read as one number, most significant digit first, as
\* the signed reading of its 32 bits
HexBE(str) ==
  (IF DigitValue(str[1]) >= 8 THEN DigitValue(str[1]) - 16
   ELSE DigitValue(str[1])) * (2 ^ 28)
  + DigitValue(str[2]) * (2 ^ 24) + DigitValue(str[3]) * (2 ^ 20)
  + DigitValue(str[4]) * (2 ^ 16) + DigitValue(str[5]) * (2 ^ 12)
  + DigitValue(str[6]) * (2 ^ 8) + DigitValue(str[7]) * (2 ^ 4)
  + DigitValue(str[8])

IsHex8(str) == Len(str) = 8 /\ \A i \in DOMAIN str : IsHexDigit(str[i])

HasHash(name) == \E i \in DOMAIN name : name[i] = Hash

\* the text between the first '#' of the name and the next one
IdField(name) ==
  LET i == CHOOSE k \in DOMAIN name :
             name[k] = Hash /\ \A j \in 1..(k - 1) : name[j] # Hash
      stops == { k \in (i + 1)..Len(name) : name[k] = Hash }
      j == IF stops = {} THEN Len(name) + 1
           ELSE CHOOSE k \in stops : \A l \in stops : k <= l
  IN SubSeq(name, i + 1, j - 1)

StorageMapOf(i) == GetStorageType(Get(storages).storage_map, Some(i))

\* C12, as stated: a UserStorage whose name begins with
\* "__recip_version1.0_#" is mapped to a Recipient, one whose name begins
\* with "__attach_version1.0_#" to an Attachment, the RootStorage and
\* nothing else to RootEntry, and no other entry is in the map.
C12_Original ==
  storages # NONE
    => \A i \in Ids :
         LET e == EntryAt(i)
             recip == /\ e.entry_type = UserStorage
                      /\ StartsWith(e.name, RecipPrefix \o <<Hash>>)
             attach == /\ e.entry_type = UserStorage
                       /\ StartsWith(e.name, AttachPrefix \o <<Hash>>)
         IN
         /\ recip => /\ StorageMapOf(i) # NONE
                     /\ Get(StorageMapOf(i)).tag = "Recipient"
         /\ attach => /\ StorageMapOf(i) # NONE
                      /\ Get(StorageMapOf(i)).tag = "Attachment"
         /\ StorageMapOf(i) = Some(RootEntry) <=> e.entry_type = RootStorage
         /\ StorageMapOf(i) # NONE
              => recip \/ attach \/ e.entry_type = RootStorage

\* what the amended claim says of an entry
Classified(e) ==
  IF e.entry_type = RootStorage THEN Some(RootEntry)
  ELSE IF /\ e.entry_type = UserStorage
          /\ StartsWith(e.name, RecipPrefix) \/ StartsWith(e.name, AttachPrefix)
          /\ HasHash(e.name)
          /\ IsHex8(IdField(e.name))
  THEN Some([tag |-> IF StartsWith(e.name, RecipPrefix) THEN "Recipient"
                     ELSE "Attachment",
             id |-> HexBE(IdField(e.name))])
  ELSE NONE

\* C12, amended: in the map EntryStorageMap::new returns, an entry is
\* mapped to RootEntry exactly when it is a RootStorage, to Recipient(n)
\* (Attachment(n)) exactly when it is a UserStorage whose name begins with
\* "__recip_version1.0_" ("__attach_version1.0_") and whose text between
\* the first '#' and the next is eight hex digits of value n; no other
\* entry is in the map.
C12_Classifier ==
  storages # NONE => \A i \in Ids : StorageMapOf(i) = Classified(EntryAt(i))

C12_Witness ==
  /\ storages # NONE
  /\ StorageMapOf(0) = Some(RootEntry)
  /\ StorageMapOf(1) = Some(Recipient(10))
  /\ StorageMapOf(2) = NONE
  /\ StorageMapOf(3) = Some(Attachment(0))

\* C13: convert_id_to_u32 gives Some(n), n the number the eight hex digits
\* spell most significant first, for every string of eight hex digits, and
\* None for every other string.
C13_ConvertId ==
  call.fn = "convert_id_to_u32"
    => IF IsHex8(call.arg.v) THEN call.ret = Some(HexBE(call.arg.v))
       ELSE call.ret = NONE

C13_Witness ==
  /\ call.fn = "convert_id_to_u32"
  /\ call.arg.v = <<70, 70, 70, 70, 70, 70, 70, 70>>
  /\ call.ret = Some(-1)

\* C14: decoding the UTF-16LE bytes of a string followed by the bytes 00 00
\* gives the string back.
C14_RoundTrip ==
  call.fn = "decode_ptypstring"
    => call.ret = Good(PtypString(call.arg.v))

\* the three buckets of the Storages
Buckets(st) == <<st.root, st.recipients_map, st.attachments_map>>

\* the units hold no surrogate without its pair
WellFormedUtf16(units) ==
  \A i \in DOMAIN units :
    /\ IsHighSurrogate(units[i])
         => i < Len(units) /\ IsLowSurrogate(units[i + 1])
    /\ IsLowSurrogate(units[i])
         => i > 1 /\ IsHighSurrogate(units[i - 1])

\* create_stream has returned from a call of PtypDecoder::decode
Decoded(c) ==
  /\ c.fn = "create_stream"
  /\ c.ret[1].ok
  /\ c.ret[1].v.decoded # NONE

\* C15, as stated: PtypDecoder::decode returns a PtypString for the code
\* 0x001F, a PtypBinary holding a copy of the bytes for 0x0102 and
\* UnknownCode(code) for every other code; a stream of an unknown code is
\* skipped and adds no property.
C15_Original ==
  [][Decoded(call')
       => LET d == Get(call'.ret[1].v.decoded) IN
          /\ d.code = PtypStringCode
               => d.res.ok /\ d.res.v.type = "PtypString"
          /\ d.code = PtypBinaryCode => d.res = Good(PtypBinary(d.buff))
          /\ d.code \notin {PtypStringCode, PtypBinaryCode}
               => /\ d.res = Bad(UnknownCode(d.code))
                  /\ call'.ret[1].v.stream = NONE
                  /\ Buckets(Get(storages')) = Buckets(Get(storages))]_vars

\* C15, amended: PtypDecoder::decode returns, for the code 0x001F, a
\* PtypString when the bytes are well-formed UTF-16 and the error Utf16Err
\* when they hold an unpaired surrogate, for 0x0102 a PtypBinary holding a
\* copy of the bytes, and UnknownCode(code) for every other code; a stream
\* of an unknown code is skipped and adds no property.
C15_Decode ==
  [][Decoded(call')
       => LET d == Get(call'.ret[1].v.decoded) IN
          /\ d.code = PtypStringCode
               => IF WellFormedUtf16(ToU16(d.buff))
                  THEN d.res.ok /\ d.res.v.type = "PtypString"
                  ELSE d.res = Bad(Utf16Err)
          /\ d.code = PtypBinaryCode => d.res = Good(PtypBinary(d.buff))
          /\ d.code \notin {PtypStringCode, PtypBinaryCode}
               => /\ d.res = Bad(UnknownCode(d.code))
                  /\ call'.ret[1].v.stream = NONE
                  /\ Buckets(Get(storages')) = Buckets(Get(storages))]_vars

C15_Witness ==
  /\ Decoded(call)
  /\ Get(call.ret[1].v.decoded).code \notin {PtypStringCode, PtypBinaryCode}
  /\ Get(call.ret[1].v.decoded).res.v.kind = "UnknownCode"
  /\ call.ret[1].v.stream = NONE
  /\ Get(storages).curr > 0

\* the entry process_streams is at reaches Stream::create with a name whose
\* property id is read and is not in the table
UnknownPropId(st, entry) ==
  /\ entry.entry_type = UserStream
  /\ GetStorageType(st.storage_map, entry.parent_node) # NONE
  /\ EntrySliceOf(entry).res = Ok
  /\ IsStream(entry.name)
  /\ ExtractIdAndDatatype(entry.name).ok
  /\ ~MapHas(PropIds, ExtractIdAndDatatype(entry.name).v.prop_id)

\* C16: when the property id of a stream is not in the table, Stream::create
\* returns None, nothing is decoded, no bucket of the Storages changes and
\* the parse goes on.
C16_UnknownProperty ==
  [][(/\ pc = "process_streams"
      /\ Get(storages).curr < Len(Get(entries))
      /\ UnknownPropId(Get(storages),
                       Get(entries)[Get(storages).curr + 1]))
       => /\ call'.fn = "create_stream"
          /\ call'.ret[1] = Returned([called |-> TRUE, stream |-> NONE,
                                      decoded |-> NONE])
          /\ Buckets(Get(storages')) = Buckets(Get(storages))
          /\ pc' = "process_streams"
          /\ outlook' = NONE]_vars

C16_Witness ==
  /\ pc = "process_streams"
  /\ call.fn = "create_stream"
  /\ UnknownPropId(Get(storages), EntryAt(call.arg[1]))
  /\ call.ret[1].ok /\ call.ret[1].v.called
  /\ call.ret[1].v.stream = NONE

\* C17: once Reader::new has returned Ok, every call of create_stream
\* returns, and from_slice returns the record: the parse neither fails
\* nor aborts.
C17_NoFailure ==
  /\ call.fn = "create_stream" => call.ret[1].ok
  /\ outlook # NONE => Get(outlook).res = Ok

\* C18: an accessor asked for a key that is absent, or for an attachment
\* that is not in the list, returns ""; a Person made of properties without
\* the name has the name "", without the emails the email "".
C18_Defaults ==
  /\ (call.fn = "get_val_from_root_or_default"
        /\ ~MapHas(Get(storages).root, call.arg[1]))
       => call.ret = << <<>> >>
  /\ (call.fn = "get_val_from_attachment_or_default"
        /\ (\/ call.arg[1] >= Len(Get(storages).attachments)
            \/ ~MapHas(Get(storages).attachments[call.arg[1] + 1],
                       call.arg[2])))
       => call.ret = << <<>> >>
  /\ pc = "done"
       => LET st == Get(storages)
              o == Get(outlook).record
          IN
          /\ Get(outlook).res = Ok
          /\ Len(o.to) = Len(st.recipients)
          /\ \A i \in DOMAIN st.recipients :
               /\ ~MapHas(st.recipients[i], "DisplayName")
                    => o.to[i].name = <<>>
               /\ (/\ ~MapHas(st.recipients[i], "SmtpAddress")
                   /\ ~MapHas(st.recipients[i], "EmailAddress"))
                    => o.to[i].email = <<>>
          /\ ~MapHas(st.root, "SenderName") => o.sender.name = <<>>
          /\ (/\ ~MapHas(st.root, "SenderSmtpAddress")
              /\ ~MapHas(st.root, "SenderEmailAddress"))
               => o.sender.email = <<>>
          /\ ~MapHas(st.root, "Subject") => o.subject = <<>>

C18_Witness ==
  /\ call.fn = "get_val_from_attachment_or_default"
  /\ Len(Get(storages).attachments) = 1
  /\ call.arg[1] = 2
  /\ call.ret = << <<>> >>
  /\ Len(Get(outlook).record.to) = 1
  /\ Get(outlook).record.to[1].email = <<>>
  /\ Get(outlook).record.to[1].name # <<>>

\* the list holds at index n the properties collected for the id n, for
\* every id of the map
IndexedById(list, map) ==
  \A n \in MapKeys(map) :
    n >= 0 /\ n < Len(list) /\ list[n + 1] = MapGet(map, n)

\* C19: after process_streams, the element n of the recipients and of the
\* attachments holds the properties of the storage whose id is n.
C19_IndexedById ==
  pc = "done"
    => /\ IndexedById(Get(storages).recipients, Get(storages).recipients_map)
       /\ IndexedById(Get(storages).attachments,
                      Get(storages).attachments_map)

-----------------------------------------------------------------------------
(* Properties of the reads, of the tree and of the chains                   *)

\* the pieces are, one after the other, the bytes of the entry from the
\* place `at` on: byte j of chunk k is byte k * max_chunk_size + j of the
\* entry
RECURSIVE PiecesFrom(_, _, _)
PiecesFrom(pieces, max_chunk_size, at) ==
  \/ pieces = <<>>
  \/ /\ pieces[1].chunk * max_chunk_size + pieces[1].from = at
     /\ pieces[1].to > pieces[1].from
     /\ PiecesFrom(Tail(pieces), max_chunk_size,
                   at + (pieces[1].to - pieces[1].from))

RECURSIVE PiecesLen(_)
PiecesLen(pieces) ==
  IF pieces = <<>> THEN 0
  ELSE (pieces[1].to - pieces[1].from) + PiecesLen(Tail(pieces))

\* a step is a read on the slice the client holds; `limit` is the number
\* of bytes the reads deliver in all
ReadStep(limit(_)) ==
  (last'.op = "read" /\ slice # NONE /\ slice' # NONE)
    => LET sl == Get(slice)
           n == last'.n
       IN
       /\ last'.res = Ok
       /\ n = Min(last'.buf, limit(sl) - sl.read)
       /\ Get(slice').read = sl.read + n
       /\ PiecesFrom(last'.pieces, sl.max_chunk_size, sl.read)
       /\ PiecesLen(last'.pieces) = n
       /\ sl.read = limit(sl) => n = 0
       /\ Get(slice').read >= sl.read
       /\ Get(slice').read <= sl.total_size

LenOf(sl) == sl.total_size
RealLenOf(sl) == sl.real_size

\* C21, as stated: each read(buf) returns min(|buf|, size - cursor) bytes
\* that continue the bytes of the entry where the read before stopped,
\* moves the cursor by the count returned and returns 0 once size bytes
\* were delivered; the cursor never decreases and never exceeds size.
C21_Original == [][ReadStep(LenOf)]_vars

\* C21, amended: each read(buf) returns min(|buf|, real_len() - cursor)
\* bytes that continue the bytes of the entry where the read before
\* stopped, moves the cursor by the count returned and returns 0 once
\* real_len() bytes were delivered; the cursor never decreases and never
\* exceeds size.
C21_Reads == [][ReadStep(RealLenOf)]_vars

C21_Witness ==
  /\ last.op = "read" /\ slice # NONE /\ last.res = Ok
  /\ Len(last.pieces) >= 2
  /\ last.pieces[1].from > 0
  /\ last.n = last.buf
  /\ Get(slice).read > last.n
  /\ Get(slice).read < Get(slice).real_size

TopFrame == stack[Len(stack)]

\* C23: build_entry_tree stops, without failing, at a link that is
\* FREE_SECID or is not below the number of entries, be it the child link,
\* the left link or the right link of a node.
C23_LinksStop ==
  (/\ pc = "tree" /\ stack # <<>>
   /\ TopFrame.stage = "enter"
   /\ \/ TopFrame.id = FREE_SECID_U32
      \/ ~InRange(TopFrame.id, Len(Get(entries))))
    => result = Running

\* the values the claim lets a walk in the table end at
EndsOf(table) ==
  IF table = "sat" THEN {END_OF_CHAIN_SECID_U32}
  ELSE {END_OF_CHAIN_SECID_U32, FREE_SECID_U32}

\* C24: a walk in the SAT ends only at END_OF_CHAIN, a walk in the SSAT at
\* END_OF_CHAIN or FREE_SECID; the chain is the SECIDs visited before the
\* terminator, in order, from the start SECID on, and holds no terminator.
C24_Walks ==
  [][(pc \in WalkPcs /\ result = Running)
       => LET t == TableOf(walk)
              ch == walk.chain
          IN
          /\ \A k \in DOMAIN ch :
               /\ ch[k] \notin EndsOf(walk.table)
               /\ InRange(ch[k], Len(t))
               /\ k < Len(ch) => ch[k + 1] = t[ch[k] + 1]
          /\ IF ch = <<>> THEN walk.cur = walk.start
             ELSE ch[1] = walk.start /\ walk.cur = t[ch[Len(ch)] + 1]
          /\ pc' # pc => walk.cur \in EndsOf(walk.table)]_vars

C24_Witness ==
  /\ pc = "entry_walk" /\ result = Running
  /\ walk.table = "ssat"
  /\ walk.cur = FREE_SECID_U32
  /\ Len(walk.chain) >= 2

\* the client has asked for the slice of a short stream
ShortSliceAsked ==
  /\ result = Ok
  /\ last.op = "get_entry_slice"
  /\ EntryAt(last.entry).entry_type = UserStream
  /\ EntryAt(last.entry).size > 0
  /\ EntryAt(last.entry).size < Get(minimum_standard_stream_size)
  /\ Get(sec_size) >= Get(short_sec_size)

\* C25: each mini-SECID m of the chain of a short stream lies inside the
\* mini-stream (m / mini_per_sector < |root_chain|) and is read from the
\* sector root_chain[m / mini_per_sector] at the offset
\* (m mod mini_per_sector) * mini_sec_size, in a chunk of
\* min(mini_sec_size, remaining) bytes.
C25_MiniStream ==
  ShortSliceAsked
    => LET e == EntryAt(last.entry)
           mini_sec_size == Get(short_sec_size)
           mini_per_sector == Get(sec_size) \div mini_sec_size
           root_chain == EntryAt(0).sec_id_chain
           remaining(j) == IF (j - 1) * mini_sec_size >= e.size THEN 0
                           ELSE e.size - (j - 1) * mini_sec_size
       IN
       /\ \A j \in DOMAIN e.sec_id_chain :
            (e.sec_id_chain[j] \div mini_per_sector) < Len(root_chain)
       /\ ~IsPanic(last.res)
       /\ last.res = Ok
            => /\ Len(Get(slice).chunks) = Len(e.sec_id_chain)
               /\ \A j \in DOMAIN e.sec_id_chain :
                    LET m == e.sec_id_chain[j]
                        c == Get(slice).chunks[j]
                    IN
                    /\ c.sec = root_chain[(m \div mini_per_sector) + 1]
                    /\ c.start = (m % mini_per_sector) * mini_sec_size
                    /\ ChunkLen(c) = Min(mini_sec_size, remaining(j))

\* the text a bucket holds under a key, "" when it holds none
Held(props, key) ==
  IF MapHas(props, key) THEN DataTypeToString(MapGet(props, key)) ELSE <<>>

\* the first of the two texts that is not empty
FirstNonEmpty(props, key1, key2) ==
  IF Held(props, key1) # <<>> THEN Held(props, key1) ELSE Held(props, key2)

\* C26: the email of the sender is the first non-empty value of
\* SenderSmtpAddress, SenderEmailAddress in the root bucket, the email of a
\* recipient the first non-empty value of SmtpAddress, EmailAddress in its
\* bucket; a first key that is present and empty falls through to the
\* second, and the email is empty only if both are absent or empty.
C26_FirstEmail ==
  call.fn = "populate"
    => LET st == call.arg.v
           o == call.ret
       IN
       /\ o.sender.email =
            FirstNonEmpty(st.root, "SenderSmtpAddress", "SenderEmailAddress")
       /\ o.sender.email = <<>>
            <=> /\ Held(st.root, "SenderSmtpAddress") = <<>>
                /\ Held(st.root, "SenderEmailAddress") = <<>>
       /\ Len(o.to) = Len(st.recipients)
       /\ \A i \in DOMAIN st.recipients :
            /\ o.to[i].email =
                 FirstNonEmpty(st.recipients[i], "SmtpAddress", "EmailAddress")
            /\ o.to[i].email = <<>>
                 <=> /\ Held(st.recipients[i], "SmtpAddress") = <<>>
                     /\ Held(st.recipients[i], "EmailAddress") = <<>>

C26_Witness ==
  /\ call.fn = "populate"
  /\ MapHas(call.arg.v.root, "SenderSmtpAddress")
  /\ Held(call.arg.v.root, "SenderSmtpAddress") = <<>>
  /\ call.ret.sender.email = <<50>>
  /\ call.ret.to[1].email = <<49>>
  /\ Held(call.arg.v.recipients[1], "EmailAddress") = <<50>>

-----------------------------------------------------------------------------
(* Properties of the order of the header checks                             *)

\* the five checks in the order of the claim, and the place of a pc in it
\* (0 for reading the header, 6 past the checks)
CheckOrder ==
  <<"check_magic", "check_endian", "sec_size", "short_sec_size", "min_size">>

PlaceOf(p) ==
  IF p = "read_header" THEN 0
  ELSE IF \E i \in DOMAIN CheckOrder : CheckOrder[i] = p
  THEN CHOOSE i \in DOMAIN CheckOrder : CheckOrder[i] = p
  ELSE 6

NoFailure == [at |-> 6, kind |-> "Ok"]

\* the first check of the order the header fails, and the kind of its error
FirstFailure ==
  IF BadMagic THEN [at |-> 1, kind |-> "InvalidOLEFile"]
  ELSE IF Marker = BIG_ENDIAN_IDENTIFIER
  THEN [at |-> 2, kind |-> "NotImplementedYet"]
  ELSE IF Marker # LITTLE_ENDIAN_IDENTIFIER
  THEN [at |-> 2, kind |-> "InvalidOLEFile"]
  ELSE IF SecExp >= 16 THEN [at |-> 3, kind |-> "BadSizeValue"]
  ELSE IF ShortExp >= 16 THEN [at |-> 4, kind |-> "BadSizeValue"]
  ELSE IF MinSize < 4096 THEN [at |-> 5, kind |-> "InvalidOLEFile"]
  ELSE NoFailure

\* C27: the header checks are made in the order magic, endianness marker,
\* sector-size exponent, short-sector-size exponent, minimum stream size;
\* the first that fails ends construction with its error, whatever the
\* later fields hold, and no allocation table exists before all five have
\* passed.
C27_CheckOrder ==
  /\ FullHeader
       => /\ PlaceOf(pc) <= FirstFailure.at
          /\ (Finished /\ PlaceOf(pc) <= 5)
               => /\ PlaceOf(pc) = FirstFailure.at
                  /\ result.kind = FirstFailure.kind
  /\ (msat # NONE \/ sat # NONE \/ ssat # NONE \/ dsat # NONE)
       => /\ FullHeader /\ FirstFailure = NoFailure
          /\ PlaceOf(pc) = 6

C27_Witness ==
  /\ FullHeader /\ ~BadMagic
  /\ Marker = BIG_ENDIAN_IDENTIFIER /\ SecExp >= 16
  /\ pc = "check_endian" /\ result = NotImplementedYet
  /\ sec_size = NONE /\ msat = NONE

-----------------------------------------------------------------------------
(* Properties of the tree and of the buckets                                *)

\* the number of places at which the children list of p holds c
TimesIn(p, c) ==
  Cardinality({k \in DOMAIN EntryAt(p).children_nodes :
                 EntryAt(p).children_nodes[k] = c})

\* C28: after build_entry_tree every id in the children of an entry p has
\* the parent Some(p), and every id is in at most one children list, at
\* one place.
C28_TreeAgrees ==
  result = Ok
    => /\ \A p \in Ids : \A c \in Elems(EntryAt(p).children_nodes) :
            EntryAt(c).parent_node = Some(p)
       /\ \A c \in Ids :
            /\ \A p \in Ids : TimesIn(p, c) <= 1
            /\ \A p, q \in Ids :
                 (TimesIn(p, c) > 0 /\ TimesIn(q, c) > 0) => p = q

\* create_stream has returned a stream, which process_streams stores
Stored(c) ==
  /\ c.fn = "create_stream"
  /\ c.ret[1].ok
  /\ c.ret[1].v.stream # NONE

\* the kind and the index the name of the storage holding entry id gives
KindOf(id) ==
  Get(Classified(EntryAt(Get(EntryAt(id).parent_node))))

\* map is old with value under key in the bucket of the index idx, its
\* other keys and the other buckets as they were
PutAt(map, old, idx, key, value) ==
  /\ MapKeys(map) = MapKeys(old) \cup {idx}
  /\ \A i \in MapKeys(old) \ {idx} : MapGet(map, i) = MapGet(old, i)
  /\ LET before == IF MapHas(old, idx) THEN MapGet(old, idx) ELSE {} IN
     /\ MapKeys(MapGet(map, idx)) = MapKeys(before) \cup {key}
     /\ MapGet(MapGet(map, idx), key) = value
     /\ \A k \in MapKeys(before) \ {key} :
          MapGet(MapGet(map, idx), k) = MapGet(before, k)

\* the streams of the directory that process_streams stores for a storage
\* of the kind
StoredFor(kind) ==
  { id \in Ids :
      /\ EntryAt(id).entry_type = UserStream
      /\ LET r == CreateStream(Get(storages), EntryAt(id)) IN
         r.ok /\ r.v.stream # NONE /\ Get(r.v.stream).parent.tag = kind }

\* C29: a stream stored for a recipient or an attachment storage goes to
\* the bucket of the index in the name of the storage, whatever the
\* directory id of the storage, over what the bucket held under the same
\* canonical name, the other names and buckets staying as they were; and
\* `to` has one person for each recipient index that received a stream.
C29_IndexBuckets ==
  [][/\ Stored(call')
          => LET s == Get(call'.ret[1].v.stream)
                 t == KindOf(call'.arg[1])
                 old == Get(storages)
                 new == Get(storages')
             IN
             /\ s.parent = t
             /\ t.tag = "Recipient"
                  => /\ PutAt(new.recipients_map, old.recipients_map, t.id,
                              s.key, s.value)
                     /\ new.root = old.root
                     /\ new.attachments_map = old.attachments_map
             /\ t.tag = "Attachment"
                  => /\ PutAt(new.attachments_map, old.attachments_map,
                              t.id, s.key, s.value)
                     /\ new.root = old.root
                     /\ new.recipients_map = old.recipients_map
     /\ (pc = "process_streams" /\ pc' = "done")
          => Len(Get(outlook').record.to)
               = Cardinality({ KindOf(id).id : id \in StoredFor("Recipient") })
    ]_vars

\* two recipient storages of the index 0, one inside the other, each with
\* a DisplayName: one person, with the name of the later stream
C29_Witness ==
  /\ pc = "done"
  /\ file \in SameKeyFiles
  /\ EntryAt(3).parent_node = Some(1)
  /\ KindOf(2) = [tag |-> "Recipient", id |-> 0]
  /\ KindOf(4) = [tag |-> "Recipient", id |-> 0]
  /\ StoredFor("Recipient") = {2, 4}
  /\ Len(Get(outlook).record.to) = 1
  /\ Get(outlook).record.to[1].name = <<46, 100, 111, 99>>

\* the entry id is a storage with a type: the RootStorage, or a UserStorage
\* named as a recipient or an attachment
HasType(id) == Classified(EntryAt(id)) # NONE

\* the entry id may give a property
MayContribute(id) ==
  LET e == EntryAt(id) IN
  /\ e.entry_type = UserStream
  /\ e.parent_node # NONE
  /\ HasType(Get(e.parent_node))
  /\ StartsWith(e.name, StreamPrefix)

\* C30: a step of process_streams changes root, the recipients or the
\* attachments only at a UserStream whose parent_node is a classified
\* storage and whose name starts with "__substg1.0"; at every other entry
\* the three are left as they were.
C30_OnlyStreams ==
  [][(/\ storages # NONE /\ storages' # NONE
      /\ call'.fn \in {"skip", "create_stream"})
       => /\ call'.arg[1] = Get(storages).curr
          /\ ~MayContribute(call'.arg[1])
               => Buckets(Get(storages')) = Buckets(Get(storages))
          /\ Buckets(Get(storages')) # Buckets(Get(storages))
               => /\ call'.fn = "create_stream"
                  /\ Stored(call')]_vars

\* a stream named as a property in a storage that has no type: nothing is
\* stored
C30_Witness ==
  /\ pc = "process_streams"
  /\ call.fn = "create_stream" /\ call.arg = <<2>>
  /\ EntryAt(2).name = DisplayNameStream
  /\ EntryAt(2).parent_node = Some(1)
  /\ EntryAt(1).entry_type = UserStorage /\ ~HasType(1)
  /\ call.ret = <<Returned([called |-> FALSE, stream |-> NONE,
                             decoded |-> NONE])>>
  /\ Buckets(Get(storages)) = <<{}, {}, {}>>

====
